---- MODULE Spec2Model ----
(***************************************************************************)
(* A model of the NamazBot turn-processing graph (src/main.py): the        *)
(* onboarding state machine (ensure_profile, noop), the intent classifier  *)
(* (classify, llm_intent_json, _safe_json_extract), the dispatcher (route) *)
(* and the intent handlers, driven turn by turn by the webhook loop of     *)
(* src/server.py over the profile store of src/session_store.py.           *)
(*                                                                         *)
(* Text is a sequence of one-character strings, so that strip(), lower(),  *)
(* title(), split() and the regular expressions are computed on the        *)
(* characters.  A character written U+06xx stands for the Arabic    *)
(* letter with that code point.                                            *)
(***************************************************************************)
EXTENDS Integers, Sequences, FiniteSets, TLC

(***************************************************************************)
(* Characters and the str methods the program uses                         *)
(***************************************************************************)
LowerLetters ==
    <<"a", "b", "c", "d", "e", "f", "g", "h", "i", "j", "k", "l", "m",
      "n", "o", "p", "q", "r", "s", "t", "u", "v", "w", "x", "y", "z">>

UpperLetters ==
    <<"A", "B", "C", "D", "E", "F", "G", "H", "I", "J", "K", "L", "M",
      "N", "O", "P", "Q", "R", "S", "T", "U", "V", "W", "X", "Y", "Z">>

ArabicLetters ==
    {"U+0627", "U+062A", "U+062C", "U+062E", "U+062F", "U+0631", "U+0639", "U+0644", "U+0645", "U+0647", "U+0648", "U+064A"}

Whitespace == {" ", "\t", "\n"}

IsLower(c) == \E i \in 1..Len(LowerLetters) : LowerLetters[i] = c

IsUpper(c) == \E i \in 1..Len(UpperLetters) : UpperLetters[i] = c

IsCased(c) == IsLower(c) \/ IsUpper(c)

LowerChar(c) ==
    IF IsUpper(c)
    THEN LowerLetters[CHOOSE i \in 1..Len(UpperLetters) : UpperLetters[i] = c]
    ELSE c

UpperChar(c) ==
    IF IsLower(c)
    THEN UpperLetters[CHOOSE i \in 1..Len(LowerLetters) : LowerLetters[i] = c]
    ELSE c

\* str.lower()
Lower(s) == [i \in 1..Len(s) |-> LowerChar(s[i])]

\* str.title(): a cased character is upper-cased after an uncased one (or
\* at the start) and lower-cased after a cased one.
Title(s) ==
    [i \in 1..Len(s) |->
        IF i = 1 \/ ~IsCased(s[i - 1]) THEN UpperChar(s[i]) ELSE LowerChar(s[i])]

\* str.strip()
Strip(s) ==
    LET keep == {i \in 1..Len(s) : s[i] \notin Whitespace}
    IN  IF keep = {} THEN <<>>
        ELSE LET lo == CHOOSE i \in keep : \A j \in keep : i <= j
                 hi == CHOOSE i \in keep : \A j \in keep : j <= i
             IN  SubSeq(s, lo, hi)

\* `sub in s` for strings

\* s.startswith(prefix)
StartsWith(s, prefix) ==
    Len(prefix) <= Len(s) /\ SubSeq(s, 1, Len(prefix)) = prefix

\* AR_RE = [U+0600-U+06FF], searched in the text
_has_ar(text) == \E i \in 1..Len(text) : text[i] \in ArabicLetters

\* RE_EMAIL = ^[^@\s]+@[^@\s]+\.[^@\s]+$ matched against a stripped text:
\* exactly one "@", no whitespace, a non-empty local part, and a "." after
\* the "@" with at least one character on each side of it.
RE_EMAIL(q) ==
    \E i \in 2..Len(q) :
        /\ q[i] = "@"
        /\ \A k \in 1..Len(q) : (k # i => q[k] # "@") /\ q[k] \notin Whitespace
        /\ \E j \in (i + 2)..(Len(q) - 1) : q[j] = "."

(***************************************************************************)
(* Country names                                                           *)
(***************************************************************************)
\* The alias table of normalize_country_name, in source order.
aliases ==
    << << <<"K", "S", "A">>, <<"S", "a", "u", "d", "i", " ", "A", "r", "a", "b", "i", "a">> >>,
       << <<"U", "A", "E">>, <<"U", "n", "i", "t", "e", "d", " ", "A", "r", "a", "b", " ", "E", "m", "i", "r", "a", "t", "e", "s">> >>,
       << <<"U", "K">>, <<"U", "n", "i", "t", "e", "d", " ", "K", "i", "n", "g", "d", "o", "m">> >>,
       << <<"U", "S", "A">>, <<"U", "n", "i", "t", "e", "d", " ", "S", "t", "a", "t", "e", "s">> >>,
       << <<"U", "S">>, <<"U", "n", "i", "t", "e", "d", " ", "S", "t", "a", "t", "e", "s">> >>,
       << <<"P", "K">>, <<"P", "a", "k", "i", "s", "t", "a", "n">> >>,
       << <<"K", "s", "a">>, <<"S", "a", "u", "d", "i", " ", "A", "r", "a", "b", "i", "a">> >>,
       << <<"U", "a", "e">>, <<"U", "n", "i", "t", "e", "d", " ", "A", "r", "a", "b", " ", "E", "m", "i", "r", "a", "t", "e", "s">> >>,
       << <<"U", "k">>, <<"U", "n", "i", "t", "e", "d", " ", "K", "i", "n", "g", "d", "o", "m">> >>,
       << <<"U", "s", "a">>, <<"U", "n", "i", "t", "e", "d", " ", "S", "t", "a", "t", "e", "s">> >>,
       << <<"P", "k">>, <<"P", "a", "k", "i", "s", "t", "a", "n">> >> >>

\* pycountry.countries restricted to four entries, in the library's order;
\* an entry without a common_name has the empty common_name.
countries ==
    << [name |-> <<"O", "m", "a", "n">>, common_name |-> <<>>],
       [name |-> <<"P", "a", "k", "i", "s", "t", "a", "n">>, common_name |-> <<>>],
       [name |-> <<"Q", "a", "t", "a", "r">>, common_name |-> <<>>],
       [name |-> <<"V", "i", "e", "t", " ", "N", "a", "m">>,
        common_name |-> <<"V", "i", "e", "t", "n", "a", "m">>] >>

\* The first index of seq satisfying P, or 0.
FirstIndex(n, P(_)) ==
    IF \E i \in 1..n : P(i)
    THEN CHOOSE i \in 1..n : P(i) /\ \A j \in 1..(i - 1) : ~P(j)
    ELSE 0

\* normalize_country_name(name): the official name, or <<>> for None.
normalize_country_name(name) ==
    LET n == Strip(name)
        IsAlias(i) == aliases[i][1] = n
        Exact(i) == \/ Lower(n) = Lower(countries[i].name)
                    \/ /\ countries[i].common_name # <<>>
                       /\ Lower(n) = Lower(countries[i].common_name)
        Prefix(i) == StartsWith(Lower(countries[i].name), Lower(n))
        a == FirstIndex(Len(aliases), IsAlias)
        e == FirstIndex(Len(countries), Exact)
        p == FirstIndex(Len(countries), Prefix)
    IN  IF name = <<>> THEN <<>>
        ELSE IF a # 0 THEN aliases[a][2]
        ELSE IF e # 0
             THEN IF Lower(n) = Lower(countries[e].name)
                  THEN countries[e].name
                  ELSE countries[e].common_name
        ELSE IF p # 0 THEN countries[p].name
        ELSE <<>>

\* A parser that splits the line at its last "-".
parse_city_country_at_last_dash(line) ==
    LET IsDash(i) == line[Len(line) + 1 - i] = "-"
        back == FirstIndex(Len(line), IsDash)
        d == IF back = 0 THEN 0 ELSE Len(line) + 1 - back
        city_raw == Strip(SubSeq(line, 1, d - 1))
        country_raw == Strip(SubSeq(line, d + 1, Len(line)))
    IN  IF d = 0 THEN [city |-> <<>>, country |-> <<>>]
        ELSE IF Len(city_raw) < 2 \/ Len(country_raw) < 2
             THEN [city |-> <<>>, country |-> <<>>]
        ELSE [city |-> Title(city_raw),
              country |-> normalize_country_name(country_raw)]

\* parse_city_country(line): [city, country], <<>> standing for None.
parse_city_country(line) ==
    LET IsDash(i) == line[i] = "-"
        d == FirstIndex(Len(line), IsDash)
        city_raw == Strip(SubSeq(line, 1, d - 1))
        country_raw == Strip(SubSeq(line, d + 1, Len(line)))
    IN  IF d = 0 THEN [city |-> <<>>, country |-> <<>>]
        ELSE IF Len(city_raw) < 2 \/ Len(country_raw) < 2
             THEN [city |-> <<>>, country |-> <<>>]
        ELSE [city |-> Title(city_raw),
              country |-> normalize_country_name(country_raw)]

(***************************************************************************)
(* Python dicts: a dict is a function from the keys it holds.              *)
(***************************************************************************)
EmptyDict == [k \in {} |-> TRUE]

Has(d, k) == k \in DOMAIN d

Put(d, k, v) == [x \in (DOMAIN d) \cup {k} |-> IF x = k THEN v ELSE d[x]]

Pop(d, k) == [x \in (DOMAIN d) \ {k} |-> d[x]]

\* Keys whose values are texts (name, email, city, country) are truthy when
\* present and non-empty; tz is a zone name ("" when empty); the flags
\* _await, _confirm_loc, _setup_done, _onboarding_ack are truthy when present.
TextOf(d, k) == IF Has(d, k) THEN d[k] ELSE <<>>

REQUIRED_FIELDS == <<"name", "email", "city", "country">>

_profile_complete(prof) ==
    \A i \in 1..Len(REQUIRED_FIELDS) : TextOf(prof, REQUIRED_FIELDS[i]) # <<>>

(***************************************************************************)
(* The profile store: the users row of Postgres and the Redis session      *)
(***************************************************************************)
NoRow == [exists |-> FALSE, row |-> EmptyDict]

NoSession == [exists |-> FALSE, profile |-> EmptyDict]

\* get_profile: the session's profile, with the row's columns as defaults.
\* A NULL text column defaults to "", a NULL tz sets nothing, a NULL lang
\* defaults to "en".
get_profile(user_row, session) ==
    LET base == IF session.exists THEN session.profile ELSE EmptyDict
        row == user_row.row
        texts == {"name", "email", "city", "country"} \ DOMAIN base
        tzs == IF Has(row, "tz") /\ row["tz"] # "" /\ ~Has(base, "tz")
               THEN {"tz"} ELSE {}
        langs == {"lang"} \ DOMAIN base
    IN  IF ~user_row.exists THEN base
        ELSE [k \in (DOMAIN base) \cup texts \cup tzs \cup langs |->
                IF k \in DOMAIN base THEN base[k]
                ELSE IF k = "tz" THEN row["tz"]
                ELSE IF k = "lang"
                     THEN (IF Has(row, "lang") /\ row["lang"] # "" THEN row["lang"] ELSE "en")
                ELSE TextOf(row, k)]

\* upsert_user_profile without the column lang.
upsert_user_profile_without_lang(user_row, profile) ==
    LET given == {"name", "email", "city", "country", "tz"} \cap DOMAIN profile
        cols == IF user_row.exists THEN given \cup DOMAIN user_row.row ELSE given
    IN  [exists |-> TRUE,
         row |-> [c \in cols |-> IF c \in given THEN profile[c] ELSE user_row.row[c]]]

\* upsert_user_profile: INSERT ... ON CONFLICT DO UPDATE SET c = COALESCE(new, old):
\* a column is overwritten by every value that is not None.
upsert_user_profile(user_row, profile) ==
    LET given == {"name", "email", "city", "country", "tz", "lang"} \cap DOMAIN profile
        cols == IF user_row.exists THEN given \cup DOMAIN user_row.row ELSE given
    IN  [exists |-> TRUE,
         row |-> [c \in cols |-> IF c \in given THEN profile[c] ELSE user_row.row[c]]]

\* set_profile: the row, then the whole profile into the session.
set_profile_row(user_row, profile) == upsert_user_profile(user_row, profile)

set_profile_session(profile) == [exists |-> TRUE, profile |-> profile]

(***************************************************************************)
(* The prayer-times API as seen by the location probe                      *)
(***************************************************************************)
PrayerKeys == {"Fajr", "Dhuhr", "Asr", "Maghrib", "Isha"}

\* What the API can give back: an exception, or data whose timings hold
\* some of the five keys (none: the data has no timings), whose
\* meta.timezone is a zone name (empty: the data has none), and which holds
\* the date block or not.
AladhanOutcomes ==
    { [raises |-> TRUE, timings |-> {}, timezone |-> "", dated |-> FALSE],
      [raises |-> FALSE, timings |-> PrayerKeys, timezone |-> "Asia/Karachi", dated |-> TRUE],
      [raises |-> FALSE, timings |-> PrayerKeys, timezone |-> "", dated |-> TRUE],
      [raises |-> FALSE, timings |-> PrayerKeys \ {"Isha"}, timezone |-> "Asia/Karachi", dated |-> TRUE],
      [raises |-> FALSE, timings |-> {}, timezone |-> "Asia/Karachi", dated |-> FALSE] }

\* A probe that accepts a response without a timezone.
validate_location_without_zone(api) ==
    IF api.raises THEN [ok |-> FALSE, tz |-> ""]
    ELSE [ok |-> api.timings # {} /\ PrayerKeys \subseteq api.timings,
          tz |-> api.timezone]

\* validate_location_against_api: (ok, timezone); every exception gives
\* (False, None), None being the empty zone name here.
validate_location_against_api(api) ==
    IF api.raises THEN [ok |-> FALSE, tz |-> ""]
    ELSE [ok |-> /\ api.timings # {}
                 /\ PrayerKeys \subseteq api.timings
                 /\ api.timezone # "",
          tz |-> api.timezone]

(***************************************************************************)
(* Onboarding: ensure_profile                                              *)
(***************************************************************************)
NoReply == [kind |-> "none"]

SetupCompleteReply(profile) ==
    [kind |-> "setup_complete", name |-> TextOf(profile, "name"),
     city |-> TextOf(profile, "city"), country |-> TextOf(profile, "country")]

\* A staged location that is missing reads as the empty dict: its city,
\* country and tz are None (the empty text and the empty zone name here).

\* The outcome of ensure_profile: the profile and reply it leaves in the
\* state, the branch it took, and whether it called subscribe_to_digest.
Outcome(profile, reply, branch, subscribes) ==
    [profile |-> profile, reply |-> reply, branch |-> branch,
     subscribes |-> subscribes]

\* Lines 475-478: the state COMPLETE, which ensure_profile passes through.
IsComplete(profile) == Has(profile, "_setup_done") /\ _profile_complete(profile)

\* A commit that writes the city and the country and not the timezone.
commit_location_without_zone(profile) ==
    LET staged == IF Has(profile, "_staged_loc") THEN profile["_staged_loc"]
                  ELSE [city |-> <<>>, country |-> <<>>, tz |-> ""]
        p1 == Put(Put(profile, "city", staged.city), "country", staged.country)
        p3 == Pop(Pop(Pop(p1, "_staged_loc"), "_confirm_loc"), "_await")
    IN  Put(p3, "_setup_done", TRUE)

\* Lines 482-491: the confirmed location becomes the stored one.
commit_location(profile) ==
    LET staged == IF Has(profile, "_staged_loc") THEN profile["_staged_loc"]
                  ELSE [city |-> <<>>, country |-> <<>>, tz |-> ""]
        p1 == Put(Put(profile, "city", staged.city), "country", staged.country)
        p2 == IF staged.tz # "" THEN Put(p1, "tz", staged.tz) ELSE p1
        p3 == Pop(Pop(Pop(p2, "_staged_loc"), "_confirm_loc"), "_await")
    IN  Put(p3, "_setup_done", TRUE)

decline_location_keeping_staged(profile) ==
    Put(Pop(profile, "_confirm_loc"), "_await", "location")

\* Lines 513-515: the refused location is dropped and asked for again.
decline_location(profile) ==
    Put(Pop(Pop(profile, "_staged_loc"), "_confirm_loc"), "_await", "location")

\* Lines 480-523: the location confirmation step.
confirm_location(profile, q, wa_id) ==
    IF Lower(q) \in { <<"y", "e", "s">>, <<"y">>, <<"h", "a", "a", "n">>,
                    <<"h", "a", "n">>, <<"j", "i">>, <<"o", "k">> }
    THEN LET p == commit_location(profile)
         IN  Outcome(p, SetupCompleteReply(p), "confirm_yes", wa_id # "")
    ELSE IF Lower(q) \in { <<"n", "o">>, <<"n">>, <<"n", "a">>, <<"n", "a", "h">> }
    THEN Outcome(decline_location(profile), [kind |-> "ask_location"],
                 "confirm_no", FALSE)
    ELSE Outcome(profile, [kind |-> "confirm_yes_or_no"], "confirm_reprompt", FALSE)

first_missing_email_first(profile) ==
    IF TextOf(profile, "email") = <<>> THEN "email"
    ELSE IF TextOf(profile, "name") = <<>> THEN "name"
    ELSE IF ~(TextOf(profile, "city") # <<>> /\ TextOf(profile, "country") # <<>>)
    THEN "location"
    ELSE ""

\* Lines 572, 578, 584: the first field still missing, "" when none is.
first_missing(profile) ==
    IF TextOf(profile, "name") = <<>> THEN "name"
    ELSE IF TextOf(profile, "email") = <<>> THEN "email"
    ELSE IF ~(TextOf(profile, "city") # <<>> /\ TextOf(profile, "country") # <<>>)
    THEN "location"
    ELSE ""

\* Lines 571-607: ask for the next missing field, or finish the setup.
\* stored tells which field this turn has just stored, if any.
ask_next_missing(profile, wa_id, stored) ==
    LET field == first_missing(profile)
    IN  IF field # ""
        THEN Outcome(Put(profile, "_await", field), [kind |-> "ask_" \o field],
                     stored \o "ask_" \o field, FALSE)
        ELSE IF ~Has(profile, "_setup_done")
        THEN LET p == Put(profile, "_setup_done", TRUE)
             IN  Outcome(p, SetupCompleteReply(p), stored \o "final_complete",
                         wa_id # "")
        ELSE Outcome(profile, NoReply, stored \o "nothing", FALSE)

collect_email_dropping_marker(profile, q, wa_id) ==
    IF ~RE_EMAIL(q)
    THEN Outcome(Pop(profile, "_await"), [kind |-> "invalid_email"],
                 "email_reprompt", FALSE)
    ELSE ask_next_missing(Pop(Put(profile, "email", q), "_await"),
                          wa_id, "email_stored:")

\* Lines 536-542 and what follows them: an email while awaiting the email.
collect_email(profile, q, wa_id) ==
    IF ~RE_EMAIL(q)
    THEN Outcome(profile, [kind |-> "invalid_email"], "email_reprompt", FALSE)
    ELSE ask_next_missing(Pop(Put(profile, "email", q), "_await"),
                          wa_id, "email_stored:")

\* A staging that leaves the awaiting marker in the profile.
stage_location_keeping_marker(profile, loc, probe) ==
    IF loc.city = <<>> \/ loc.country = <<>>
    THEN Outcome(profile, [kind |-> "location_format"], "loc_format", FALSE)
    ELSE IF ~probe.ok
    THEN Outcome(Put(profile, "_await", "location"),
                 [kind |-> "location_not_validated"], "loc_invalid", FALSE)
    ELSE Outcome(
             Put(Put(profile, "_staged_loc",
                     [city |-> loc.city, country |-> loc.country,
                      tz |-> probe.tz]),
                 "_confirm_loc", TRUE),
             [kind |-> "confirm_location", city |-> loc.city,
              country |-> loc.country, tz |-> probe.tz],
             "loc_staged", FALSE)

\* Lines 545-569: loc is what parse_city_country gave and probe what
\* validate_location_against_api gives.
stage_location(profile, loc, probe) ==
    IF loc.city = <<>> \/ loc.country = <<>>
    THEN Outcome(profile, [kind |-> "location_format"], "loc_format", FALSE)
    ELSE IF ~probe.ok
    THEN Outcome(Put(profile, "_await", "location"),
                 [kind |-> "location_not_validated"], "loc_invalid", FALSE)
    ELSE Outcome(
             Pop(Put(Put(profile, "_staged_loc",
                         [city |-> loc.city, country |-> loc.country,
                          tz |-> probe.tz]),
                     "_confirm_loc", TRUE),
                 "_await"),
             [kind |-> "confirm_location", city |-> loc.city,
              country |-> loc.country, tz |-> probe.tz],
             "loc_staged", FALSE)

\* Lines 544-569: a location line while awaiting the location.
collect_location(profile, q, api) ==
    stage_location(profile, parse_city_country(q), validate_location_against_api(api))

\* ensure_profile(state): profile and question are the state's, api is what
\* the prayer-times API answers if the location probe is made.
ensure_profile(profile, question, wa_id, api) ==
    LET q == Strip(question)
        awaiting == IF Has(profile, "_await") THEN profile["_await"] ELSE ""
    IN  IF IsComplete(profile)
        THEN Outcome(profile, NoReply, "complete", FALSE)
        ELSE IF Has(profile, "_confirm_loc")
        THEN confirm_location(profile, q, wa_id)
        ELSE IF awaiting = "name"
        THEN IF q = <<>> \/ Lower(q) \in { <<"o", "k">>, <<"o", "k", "a", "y">> }
             THEN Outcome(profile, [kind |-> "ask_name"], "name_reprompt", FALSE)
             ELSE ask_next_missing(Pop(Put(profile, "name", q), "_await"),
                                   wa_id, "name_stored:")
        ELSE IF awaiting = "email"
        THEN collect_email(profile, q, wa_id)
        ELSE IF awaiting = "location"
        THEN collect_location(profile, q, api)
        ELSE ask_next_missing(profile, wa_id, "")

\* noop: the sink node of a turn that stays in onboarding.
noop(prof) ==
    LET p1 == IF Has(prof, "_onboarding_ack") THEN Pop(prof, "_onboarding_ack") ELSE prof
    IN  IF _profile_complete(p1) /\ Has(p1, "_await") THEN Pop(p1, "_await") ELSE p1

route_after_profile_when_all_hold(prof) ==
    IF Has(prof, "_await") /\ ~_profile_complete(prof) /\ Has(prof, "_confirm_loc")
    THEN "noop"
    ELSE "classify"

\* route_after_profile: the node that follows ensure_profile.
route_after_profile(prof) ==
    IF Has(prof, "_await") \/ ~_profile_complete(prof) \/ Has(prof, "_confirm_loc")
    THEN "noop"
    ELSE "classify"

\* _auto_set_lang: the language of the turn, from the question alone.
_auto_set_lang(profile, question) ==
    Put(profile, "lang", IF _has_ar(question) THEN "ar" ELSE "en")

(***************************************************************************)
(* Intent labels                                                           *)
(***************************************************************************)
L_islamic_date == <<"i", "s", "l", "a", "m", "i", "c", "_", "d", "a", "t", "e">>

L_prayer_times == <<"p", "r", "a", "y", "e", "r", "_", "t", "i", "m", "e", "s">>

L_next_prayer == <<"n", "e", "x", "t", "_", "p", "r", "a", "y", "e", "r">>

L_reminder == <<"r", "e", "m", "i", "n", "d", "e", "r">>

L_calendar_connect == <<"c", "a", "l", "e", "n", "d", "a", "r", "_", "c", "o", "n", "n", "e", "c", "t">>

L_calendar_create_event == <<"c", "a", "l", "e", "n", "d", "a", "r", "_", "c", "r", "e", "a", "t", "e", "_", "e", "v", "e", "n", "t">>

L_calendar_view_events == <<"c", "a", "l", "e", "n", "d", "a", "r", "_", "v", "i", "e", "w", "_", "e", "v", "e", "n", "t", "s">>

L_calendar_find_events == <<"c", "a", "l", "e", "n", "d", "a", "r", "_", "f", "i", "n", "d", "_", "e", "v", "e", "n", "t", "s">>

L_calendar_delete_event == <<"c", "a", "l", "e", "n", "d", "a", "r", "_", "d", "e", "l", "e", "t", "e", "_", "e", "v", "e", "n", "t">>

L_general == <<"g", "e", "n", "e", "r", "a", "l">>

INTENT_LABELS ==
    << L_islamic_date, L_prayer_times, L_next_prayer, L_reminder,
       L_calendar_connect, L_calendar_create_event, L_calendar_view_events,
       L_calendar_find_events, L_calendar_delete_event, L_general >>

IsIntentLabel_any(x) == TRUE

\* intent in INTENT_LABELS
IsIntentLabel(x) == \E i \in 1..Len(INTENT_LABELS) : INTENT_LABELS[i] = x

PRAYER_NAMES ==
    << <<"F", "a", "j", "r">>, <<"D", "h", "u", "h", "r">>, <<"A", "s", "r">>, <<"M", "a", "g", "h", "r", "i", "b">>, <<"I", "s", "h", "a">> >>

\* The mapping of llm_intent_json from a lower-cased prayer name to the
\* canonical one.
prayer_name_mapping ==
    << << <<"f", "a", "j", "r">>, <<"F", "a", "j", "r">> >>,
       << <<"z", "u", "h", "r">>, <<"D", "h", "u", "h", "r">> >>,
       << <<"d", "h", "u", "h", "r">>, <<"D", "h", "u", "h", "r">> >>,
       << <<"a", "s", "r">>, <<"A", "s", "r">> >>,
       << <<"m", "a", "g", "h", "r", "i", "b">>, <<"M", "a", "g", "h", "r", "i", "b">> >>,
       << <<"i", "s", "h", "a">>, <<"I", "s", "h", "a">> >> >>

(***************************************************************************)
(* JSON values as Python sees them after json.loads                        *)
(***************************************************************************)
JNull == [t |-> "null"]

JStr(s) == [t |-> "str", s |-> s]

JList(n) == [t |-> "list", len |-> n]

JDict(d) == [t |-> "dict", d |-> d]

\* bool(v)
Truthy(v) ==
    CASE v.t = "null" -> FALSE
      [] v.t = "str"  -> v.s # <<>>
      [] v.t = "num"  -> v.n # 0
      [] v.t = "list" -> v.len > 0
      [] v.t = "dict" -> DOMAIN v.d # {}

\* str(v): a text is itself and None is "None"; the text of a number, a
\* list or a dict starts with a digit or a bracket.
PyStr(v) ==
    CASE v.t = "null" -> <<"N", "o", "n", "e">>
      [] v.t = "str"  -> v.s
      [] v.t = "num"  -> <<"5">>
      [] v.t = "list" -> <<"[", "]">>
      [] v.t = "dict" -> <<"{", "}">>

\* d.get(k), None when the key is missing
DictGet(d, k) == IF Has(d, k) THEN d[k] ELSE JNull

(***************************************************************************)
(* What the LLM may answer to the router prompt.  A text is a sequence of  *)
(* segments: each brace is a segment of its own, the other segments hold   *)
(* no brace.                                                               *)
(***************************************************************************)
Obj(head, slots) == <<"{", head, "{", slots, "}", "}">>

Flat(body) == <<"{", body, "}">>

T_next_prayer == Obj("\"intent\":\"next_prayer\",\"slots\":", "\"city\":\" doha \"")

EmptySlots == [k \in {} |-> JNull]

\* Texts of the router LLM that json.loads accepts, with the value it
\* returns for each.
RouterDocuments ==
    { [text |-> Obj("\"intent\":\"prayer_times\",\"slots\":", "\"prayer_name\":\"fajr\",\"date\":\"tomorrow\""),
       value |-> JDict([intent |-> JStr(L_prayer_times),
                        slots |-> JDict([prayer_name |-> JStr(<<"f", "a", "j", "r">>),
                                         date |-> JStr(<<"t", "o", "m", "o", "r", "r", "o", "w">>)])])],
      [text |-> T_next_prayer,
       value |-> JDict([intent |-> JStr(L_next_prayer),
                        slots |-> JDict([city |-> JStr(<<" ", "d", "o", "h", "a", " ">>)])])],
      [text |-> Flat("\"intent\":\"Islamic_Date\""),
       value |-> JDict([intent |-> JStr(<<"I", "s", "l", "a", "m", "i", "c", "_", "D", "a", "t", "e">>)])],
      [text |-> Obj("\"intent\":\"reminder\",\"slots\":", "\"reminder_text\":\"call mom\",\"reminder_time\":\"in 5 min\""),
       value |-> JDict([intent |-> JStr(L_reminder),
                        slots |-> JDict([reminder_text |-> JStr(<<"c", "a", "l", "l", " ", "m", "o", "m">>),
                                         reminder_time |-> JStr(<<"i", "n", " ", "5", " ", "m", "i", "n">>)])])],
      [text |-> Obj("\"intent\":\"calendar_connect\",\"slots\":", ""),
       value |-> JDict([intent |-> JStr(L_calendar_connect), slots |-> JDict(EmptySlots)])],
      [text |-> Obj("\"intent\":\"calendar_create_event\",\"slots\":", ""),
       value |-> JDict([intent |-> JStr(L_calendar_create_event), slots |-> JDict(EmptySlots)])],
      [text |-> Obj("\"intent\":\"calendar_view_events\",\"slots\":", ""),
       value |-> JDict([intent |-> JStr(L_calendar_view_events), slots |-> JDict(EmptySlots)])],
      [text |-> Obj("\"intent\":\"calendar_find_events\",\"slots\":", ""),
       value |-> JDict([intent |-> JStr(L_calendar_find_events), slots |-> JDict(EmptySlots)])],
      [text |-> Obj("\"intent\":\"calendar_delete_event\",\"slots\":", ""),
       value |-> JDict([intent |-> JStr(L_calendar_delete_event), slots |-> JDict(EmptySlots)])],
      [text |-> Flat("\"intent\":\"general\",\"slots\":null"),
       value |-> JDict([intent |-> JStr(L_general), slots |-> JNull])],
      [text |-> Obj("\"intent\":\"weather\",\"slots\":", "\"city\":\"lahore\""),
       value |-> JDict([intent |-> JStr(<<"w", "e", "a", "t", "h", "e", "r">>),
                        slots |-> JDict([city |-> JStr(<<"l", "a", "h", "o", "r", "e">>)])])],
      [text |-> Obj("\"intent\":\"prayer_times\",\"slots\":", "\"prayer_name\":\"witr\""),
       value |-> JDict([intent |-> JStr(L_prayer_times),
                        slots |-> JDict([prayer_name |-> JStr(<<"w", "i", "t", "r">>)])])],
      [text |-> <<"[\"prayer_times\"]">>, value |-> JList(1)],
      [text |-> <<"null">>, value |-> JNull],
      [text |-> <<"\"general\"">>, value |-> JStr(L_general)],
      [text |-> Flat("\"intent\":\"prayer_times\",\"slots\":\"fajr\""),
       value |-> JDict([intent |-> JStr(L_prayer_times), slots |-> JStr(<<"f", "a", "j", "r">>)])],
      [text |-> Flat("\"intent\":null,\"slots\":[]"),
       value |-> JDict([intent |-> JNull, slots |-> JList(0)])] }

\* More such texts: reminders and prayer times with the slots filled in
\* the ways the handlers tell apart.
SlotDocuments ==
    { [text |-> Obj("\"intent\":\"reminder\",\"slots\":", " "),
       value |-> JDict([intent |-> JStr(L_reminder),
                        slots |-> JDict(EmptySlots)])],
      [text |-> Obj("\"intent\":\"reminder\",\"slots\":", "\"reminder_text\":\"call mom\",\"reminder_time\":\"14:30\""),
       value |-> JDict([intent |-> JStr(L_reminder),
                        slots |-> JDict([reminder_text |-> JStr(<<"c", "a", "l", "l", " ", "m", "o", "m">>),
                                         reminder_time |-> JStr(<<"1", "4", ":", "3", "0">>)])])],
      [text |-> Obj("\"intent\":\"reminder\",\"slots\":", "\"reminder_text\":\"call mom\",\"reminder_time\":\"25:99\""),
       value |-> JDict([intent |-> JStr(L_reminder),
                        slots |-> JDict([reminder_text |-> JStr(<<"c", "a", "l", "l", " ", "m", "o", "m">>),
                                         reminder_time |-> JStr(<<"2", "5", ":", "9", "9">>)])])],
      [text |-> Obj("\"intent\":\"reminder\",\"slots\":", "\"reminder_text\":\"call mom\",\"reminder_time\":\"In 2 Hours\""),
       value |-> JDict([intent |-> JStr(L_reminder),
                        slots |-> JDict([reminder_text |-> JStr(<<"c", "a", "l", "l", " ", "m", "o", "m">>),
                                         reminder_time |-> JStr(<<"I", "n", " ", "2", " ", "H", "o", "u", "r", "s">>)])])],
      [text |-> Obj("\"intent\":\"reminder\",\"slots\":", "\"reminder_text\":\"call mom\",\"reminder_time\":\"soon\""),
       value |-> JDict([intent |-> JStr(L_reminder),
                        slots |-> JDict([reminder_text |-> JStr(<<"c", "a", "l", "l", " ", "m", "o", "m">>),
                                         reminder_time |-> JStr(<<"s", "o", "o", "n">>)])])],
      [text |-> Obj("\"intent\":\"reminder\",\"slots\":", "\"reminder_text\":\"call mom\",\"reminder_time\":[\"14:30\"]"),
       value |-> JDict([intent |-> JStr(L_reminder),
                        slots |-> JDict([reminder_text |-> JStr(<<"c", "a", "l", "l", " ", "m", "o", "m">>),
                                         reminder_time |-> JList(1)])])],
      [text |-> Obj("\"intent\":\"prayer_times\",\"slots\":", "\"prayer_name\":\"isha\",\"date\":\"2025-3-9\""),
       value |-> JDict([intent |-> JStr(L_prayer_times),
                        slots |-> JDict([prayer_name |-> JStr(<<"i", "s", "h", "a">>),
                                         date |-> JStr(<<"2", "0", "2", "5", "-", "3", "-", "9">>)])])],
      [text |-> Obj("\"intent\":\"prayer_times\",\"slots\":", "\"date\":\"2025-02-30\""),
       value |-> JDict([intent |-> JStr(L_prayer_times),
                        slots |-> JDict([date |-> JStr(<<"2", "0", "2", "5", "-", "0", "2", "-", "3", "0">>)])])],
      [text |-> Obj("\"intent\":\"prayer_times\",\"slots\":", "\"date\":\" Today \""),
       value |-> JDict([intent |-> JStr(L_prayer_times),
                        slots |-> JDict([date |-> JStr(<<" ", "T", "o", "d", "a", "y", " ">>)])])],
      [text |-> Obj("\"intent\":\"prayer_times\",\"slots\":", "\"date\":[\"tomorrow\"]"),
       value |-> JDict([intent |-> JStr(L_prayer_times),
                        slots |-> JDict([date |-> JList(1)])])],
      [text |-> Obj("\"intent\":\"prayer_times\",\"slots\":", "\"date\":\"tomorrow\",\"city\":\"doha\""),
       value |-> JDict([intent |-> JStr(L_prayer_times),
                        slots |-> JDict([date |-> JStr(<<"t", "o", "m", "o", "r", "r", "o", "w">>),
                                         city |-> JStr(<<"d", "o", "h", "a">>)])])],
      [text |-> Obj("\"intent\":\"prayer_times\",\"slots\":", "\"country\":\"oman\""),
       value |-> JDict([intent |-> JStr(L_prayer_times),
                        slots |-> JDict([country |-> JStr(<<"o", "m", "a", "n">>)])])],
      [text |-> Obj("\"intent\":\"next_prayer\",\"slots\":", " "),
       value |-> JDict([intent |-> JStr(L_next_prayer), slots |-> JDict(EmptySlots)])] }

\* The texts json.loads accepts, with the value it returns for each.

\* llm.ainvoke: it raises (an API error, a timeout) or answers with a text:
\* a document, a document wrapped in prose, or a text that holds no JSON
\* (a bare word, braces around no JSON, braces in the wrong order, nothing).
LlmOutcomes ==
    {[raises |-> TRUE, content |-> <<>>]}
        \cup {[raises |-> FALSE, content |-> doc.text] : doc \in RouterDocuments}
        \cup {[raises |-> FALSE, content |-> x] :
                x \in { <<"Sure: ">> \o T_next_prayer \o <<" ok">>,
                        <<"prayer_times">>,
                        Flat("oops"),
                        <<"}", "x", "{">>,
                        <<>> }}

\* The value of the document of docs that has this text, if there is one.
json_lookup(docs, text) ==
    IF \E doc \in docs : doc.text = text
    THEN [ok |-> TRUE, value |-> (CHOOSE doc \in docs : doc.text = text).value]
    ELSE [ok |-> FALSE, value |-> JNull]

\* json.loads(text): the value, or a JSONDecodeError
json_loads(text) == json_lookup(RouterDocuments \cup SlotDocuments, text)

\* _safe_json_extract(text): json.loads of the whole text, else (lines
\* 248-252) of the text from the first "{" to the last "}" (rfind), else
\* the empty dict.
_safe_json_extract(text) ==
    LET IsOpen(i) == text[i] = "{"
        IsClose(i) == text[Len(text) + 1 - i] = "}"
        start == FirstIndex(Len(text), IsOpen)
        back == FirstIndex(Len(text), IsClose)
        end == IF back = 0 THEN 0 ELSE Len(text) + 1 - back
        whole == json_loads(text)
        braced == IF start # 0 /\ end # 0 /\ end > start
                  THEN json_loads(SubSeq(text, start, end))
                  ELSE [ok |-> FALSE, value |-> JNull]
    IN  IF whole.ok THEN whole.value
        ELSE IF braced.ok THEN braced.value
        ELSE JDict(EmptySlots)

(***************************************************************************)
(* The classifier                                                          *)
(***************************************************************************)
\* What llm_intent_json gives when an exception leaves it.
IntentRaised == [raises |-> TRUE, intent |-> L_general, slots |-> EmptySlots]

\* Lines 442-444: the lower-cased label, general when it is none of the ten.
intent_of(raw) == IF IsIntentLabel(raw) THEN raw ELSE L_general

\* Lines 449-452: the canonical prayer name, None for a name not mapped.
canonical_prayer(pn) ==
    LET key == Lower(Strip(PyStr(pn)))
        IsKey(i) == prayer_name_mapping[i][1] = key
        m == FirstIndex(Len(prayer_name_mapping), IsKey)
    IN  IF m # 0 THEN JStr(prayer_name_mapping[m][2]) ELSE JNull

\* Lines 447-452
with_prayer(slots, pn) ==
    IF Truthy(pn) THEN Put(slots, "prayer_name", canonical_prayer(pn)) ELSE slots

\* Lines 453-456: a city or country that is a text is stripped and title-cased.
title_places(slots) ==
    [k \in DOMAIN slots |->
        IF k \in {"city", "country"} /\ slots[k].t = "str"
        THEN JStr(Title(Strip(slots[k].s)))
        ELSE slots[k]]

\* Lines 446-457: slots.get raises on slots that are no dict.
decode_slots(intent, slots) ==
    IF slots.t # "dict" THEN IntentRaised
    ELSE [raises |-> FALSE, intent |-> intent,
          slots |-> title_places(with_prayer(slots.d, DictGet(slots.d, "prayer_name")))]

\* Lines 442-457: data.get raises on data that is no dict.
decode_answer(data) ==
    IF data.t # "dict" THEN IntentRaised
    ELSE decode_slots(
             intent_of(Lower(IF Has(data.d, "intent") THEN PyStr(data.d["intent"])
                             ELSE L_general)),
             IF Has(data.d, "slots") /\ Truthy(data.d["slots"])
             THEN data.d["slots"] ELSE JDict(EmptySlots))

\* llm_intent_json: the router's answer decoded into an intent and slots,
\* or the exception that leaves the function.
llm_intent_json(llm) ==
    IF llm.raises THEN IntentRaised
    ELSE decode_answer(_safe_json_extract(llm.content))

date_keywords ==
    << <<"d", "a", "t", "e">>,
       <<"t", "o", "d", "a", "y">>,
       <<"w", "h", "a", "t", " ", "d", "a", "y">>,
       <<"h", "i", "j", "r", "i">>,
       <<"i", "s", "l", "a", "m", "i", "c", " ", "d", "a", "t", "e">>,
       <<"g", "r", "e", "g", "o", "r", "i", "a", "n">>,
       <<"U+0627", "U+0644", "U+062A", "U+0627", "U+0631", "U+064A", "U+062E">>,
       <<"U+0627", "U+0644", "U+064A", "U+0648", "U+0645">>,
       <<"U+0647", "U+062C", "U+0631", "U+064A">>,
       <<"U+0645", "U+064A", "U+0644", "U+0627", "U+062F", "U+064A">>,
       <<"w", "h", "a", "t", "'", "s", " ", "t", "h", "e", " ", "d", "a", "t", "e">>,
       <<"w", "h", "a", "t", " ", "i", "s", " ", "t", "h", "e", " ", "d", "a", "t", "e">>,
       <<"c", "u", "r", "r", "e", "n", "t", " ", "d", "a", "t", "e">>,
       <<"t", "o", "d", "a", "y", " ", "d", "a", "t", "e">>,
       <<"t", "o", "d", "a", "y", "'", "s", " ", "d", "a", "t", "e">> >>

\* A search for the keywords in the question as it was typed.
HasDateKeyword_as_typed(q) ==
    LET Contains(s, sub) ==
            \E i \in 1..(Len(s) - Len(sub) + 1) : SubSeq(s, i, i + Len(sub) - 1) = sub
    IN  \E i \in 1..Len(date_keywords) : Contains(q, date_keywords[i])

HasDateKeyword(q) ==
    LET Contains(s, sub) ==
            \E i \in 1..(Len(s) - Len(sub) + 1) : SubSeq(s, i, i + Len(sub) - 1) = sub
    IN  \E i \in 1..Len(date_keywords) : Contains(Lower(q), date_keywords[i])

\* \w of the re module
IsWordChar(c) ==
    \/ IsCased(c)
    \/ c \in {"0", "1", "2", "3", "4", "5", "6", "7", "8", "9", "_"}
    \/ c \in ArabicLetters

\* re.search(rf"\b{w}\b", s) for a w that starts and ends with a word character
HasWord(s, w) ==
    \E i \in 1..(Len(s) - Len(w) + 1) :
        /\ SubSeq(s, i, i + Len(w) - 1) = w
        /\ (i = 1 \/ ~IsWordChar(s[i - 1]))
        /\ (i + Len(w) - 1 = Len(s) \/ ~IsWordChar(s[i + Len(w)]))

\* The alias_map of find_country_in_text, in source order.
alias_map ==
    << << <<"k", "s", "a">>, <<"S", "a", "u", "d", "i", " ", "A", "r", "a", "b", "i", "a">> >>,
       << <<"u", "a", "e">>, <<"U", "n", "i", "t", "e", "d", " ", "A", "r", "a", "b", " ", "E", "m", "i", "r", "a", "t", "e", "s">> >>,
       << <<"u", "k">>, <<"U", "n", "i", "t", "e", "d", " ", "K", "i", "n", "g", "d", "o", "m">> >>,
       << <<"u", "s", "a">>, <<"U", "n", "i", "t", "e", "d", " ", "S", "t", "a", "t", "e", "s">> >>,
       << <<"u", "s">>, <<"U", "n", "i", "t", "e", "d", " ", "S", "t", "a", "t", "e", "s">> >>,
       << <<"p", "k">>, <<"P", "a", "k", "i", "s", "t", "a", "n">> >> >>

\* find_country_in_text(text): the country the user typed, or <<>> for None.
find_country_in_text(text) ==
    LET low == Lower(text)
        IsAlias(i) == HasWord(low, alias_map[i][1])
        Named(i) == \/ HasWord(low, Lower(countries[i].name))
                    \/ /\ countries[i].common_name # <<>>
                       /\ HasWord(low, Lower(countries[i].common_name))
        a == FirstIndex(Len(alias_map), IsAlias)
        c == FirstIndex(Len(countries), Named)
    IN  IF text = <<>> THEN <<>>
        ELSE IF a # 0 THEN alias_map[a][2]
        ELSE IF c # 0
             THEN IF HasWord(low, Lower(countries[c].name))
                  THEN countries[c].name
                  ELSE countries[c].common_name
        ELSE <<>>

\* One slot of classify: the key is set when the value is truthy and
\* removed otherwise.
SetOrPop(prof, key, v) == IF Truthy(v) THEN Put(prof, key, v) ELSE Pop(prof, key)

\* Lines 649-654: the country the user typed, normalised when it can be.
\* Lines 643-672: the overrides and requests of this turn.
with_overrides(prof, slots, explicit_country) ==
    LET p1 == SetOrPop(prof, "_override_city", DictGet(slots, "city"))
        norm == normalize_country_name(explicit_country)
        p2 == IF explicit_country # <<>>
              THEN Put(p1, "_override_country",
                       JStr(IF norm # <<>> THEN norm ELSE explicit_country))
              ELSE Pop(p1, "_override_country")
        p3 == SetOrPop(p2, "_requested_prayer", DictGet(slots, "prayer_name"))
        p4 == SetOrPop(p3, "_requested_date", DictGet(slots, "date"))
        p5 == SetOrPop(p4, "_reminder_text", DictGet(slots, "reminder_text"))
    IN  SetOrPop(p5, "_reminder_time", DictGet(slots, "reminder_time"))

\* Lines 639-680: classify once llm_intent_json has answered with data.
classify_with(prof, question, data) ==
    IF data.raises
    THEN [raises |-> TRUE, called |-> TRUE, intent |-> L_general, profile |-> prof]
    ELSE [raises |-> FALSE, called |-> TRUE, intent |-> data.intent,
          profile |-> with_overrides(prof, data.slots, find_country_in_text(question))]

\* classify(state): the intent and the profile with this turn's overrides,
\* or the exception of the LLM call; called tells whether the LLM was asked.
classify(prof, question, llm) ==
    IF \/ Has(prof, "_await") \/ ~_profile_complete(prof)
       \/ Has(prof, "_onboarding_ack") \/ Has(prof, "_confirm_loc")
    THEN [raises |-> FALSE, called |-> FALSE, intent |-> L_general, profile |-> prof]
    ELSE IF HasDateKeyword(question)
    THEN [raises |-> FALSE, called |-> FALSE, intent |-> L_islamic_date, profile |-> prof]
    ELSE classify_with(prof, question, llm_intent_json(llm))

\* route: the node that follows classify; an intent without an edge has none.
route(intent) ==
    CASE intent = L_islamic_date -> "islamic_date"
      [] intent = L_prayer_times -> "prayer_times"
      [] intent = L_next_prayer -> "next_prayer"
      [] intent = L_reminder -> "scheduler_agent"
      [] intent = L_calendar_connect -> "calendar_connect"
      [] intent = L_calendar_create_event -> "calendar_create_event"
      [] intent = L_calendar_view_events -> "calendar_view_events"
      [] intent = L_calendar_find_events -> "calendar_find_events"
      [] intent = L_calendar_delete_event -> "calendar_delete_event"
      [] intent = L_general -> "general"
      [] OTHER -> "no_edge"

(***************************************************************************)
(* Intent handlers: location, language, dates and prayer times             *)
(***************************************************************************)
\* A resolution that joins an override city with the stored country.
get_effective_location_with_stored_country(prof) ==
    LET o_city == DictGet(prof, "_override_city")
        o_country == DictGet(prof, "_override_country")
        p_city == JStr(TextOf(prof, "city"))
        p_country == JStr(TextOf(prof, "country"))
    IN  [city |-> IF Truthy(o_city) THEN o_city ELSE p_city,
         country |-> IF Truthy(o_country) THEN o_country ELSE p_country,
         address_mode |-> FALSE]

\* get_effective_location(state): (city, country, address_mode); a per-turn
\* override is a JSON value, the stored city and country are texts.
get_effective_location(prof) ==
    LET o_city == DictGet(prof, "_override_city")
        o_country == DictGet(prof, "_override_country")
        p_city == JStr(TextOf(prof, "city"))
        p_country == JStr(TextOf(prof, "country"))
    IN  IF Truthy(o_city) /\ ~Truthy(o_country)
        THEN [city |-> o_city, country |-> JNull, address_mode |-> TRUE]
        ELSE [city |-> IF Truthy(o_city) THEN o_city ELSE p_city,
              country |-> IF Truthy(o_country) THEN o_country ELSE p_country,
              address_mode |-> FALSE]

\* A clearing of the overrides that takes the stored city with them.
clear_overrides_and_city(prof) ==
    Pop(Pop(Pop(prof, "_override_city"), "_override_country"), "city")

clear_overrides(prof) == Pop(Pop(prof, "_override_city"), "_override_country")

\* _lang(state)
_lang(prof) == IF Has(prof, "lang") /\ prof["lang"] # "" THEN prof["lang"] ELSE "en"

\* What the translation call of _ensure_output_language can do.
TranslateOutcomes == {"raises", "empty", "arabic"}

\* _ensure_output_language: the language of the text it returns for an
\* English base text; a failed or empty translation returns the base text.
_ensure_output_language(prof, tr) ==
    IF _lang(prof) # "ar" THEN "en"
    ELSE IF tr = "arabic" THEN "ar" ELSE "en"

\* The place named in a reply: the city alone in address mode or without a
\* country.
PlaceOf(loc) ==
    IF loc.address_mode \/ ~Truthy(loc.country)
    THEN [city |-> loc.city, country |-> JNull]
    ELSE [city |-> loc.city, country |-> loc.country]

\* What a handler leaves: an exception, or a profile and a reply.
Raised(prof) == [raises |-> TRUE, profile |-> prof, reply |-> NoReply]

Returned(prof, reply) == [raises |-> FALSE, profile |-> prof, reply |-> reply]

\* aladhan_fetch raises without a city, and when the request fails.
FetchFails(loc, api) == ~Truthy(loc.city) \/ api.raises

\* islamic_date(state)
islamic_date(prof, api, tr) ==
    LET loc == get_effective_location(prof)
    IN  IF FetchFails(loc, api) \/ ~api.dated THEN Raised(prof)
        ELSE Returned(clear_overrides(prof),
                      [kind |-> "islamic_date", place |-> PlaceOf(loc),
                       lang |-> _ensure_output_language(prof, tr)])

IsDigit(c) == c \in {"0", "1", "2", "3", "4", "5", "6", "7", "8", "9"}

\* int(s) for a text of digits
RECURSIVE IntOf(_)
IntOf(s) ==
    LET DigitValue(c) ==
            CASE c = "0" -> 0 [] c = "1" -> 1 [] c = "2" -> 2 [] c = "3" -> 3
              [] c = "4" -> 4 [] c = "5" -> 5 [] c = "6" -> 6 [] c = "7" -> 7
              [] c = "8" -> 8 [] c = "9" -> 9
    IN  IF s = <<>> THEN 0
        ELSE 10 * IntOf(SubSeq(s, 1, Len(s) - 1)) + DigitValue(s[Len(s)])

AllDigits(s) == \A i \in 1..Len(s) : IsDigit(s[i])

\* datetime.strptime(s, "%Y-%m-%d"): a four-digit year, a month and a day
\* of one or two digits, and a date that exists.
strptime_ymd(s) ==
    LET DaysInMonth(y, m) ==
            IF m \in {4, 6, 9, 11} THEN 30
            ELSE IF m = 2
                 THEN (IF (y % 4 = 0 /\ y % 100 # 0) \/ y % 400 = 0 THEN 29 ELSE 28)
            ELSE 31
        IsDash(i) == s[i] = "-"
        d1 == FirstIndex(Len(s), IsDash)
        rest == SubSeq(s, d1 + 1, Len(s))
        IsDash2(i) == rest[i] = "-"
        d2 == FirstIndex(Len(rest), IsDash2)
        ys == SubSeq(s, 1, d1 - 1)
        ms == SubSeq(rest, 1, d2 - 1)
        ds == SubSeq(rest, d2 + 1, Len(rest))
        shaped == /\ d1 # 0 /\ d2 # 0
                  /\ Len(ys) = 4 /\ Len(ms) \in {1, 2} /\ Len(ds) \in {1, 2}
                  /\ AllDigits(ys) /\ AllDigits(ms) /\ AllDigits(ds)
    IN  IF shaped /\ IntOf(ms) \in 1..12
                  /\ IntOf(ds) \in 1..DaysInMonth(IntOf(ys), IntOf(ms))
        THEN [ok |-> TRUE, year |-> IntOf(ys), month |-> IntOf(ms), day |-> IntOf(ds)]
        ELSE [ok |-> FALSE, year |-> 0, month |-> 0, day |-> 0]

PRAYER_ORDER == <<"Fajr", "Dhuhr", "Asr", "Maghrib", "Isha">>

\* The date with the year first, the format the slot came in.
strftime_ymd(dt) ==
    LET digits == <<"0", "1", "2", "3", "4", "5", "6", "7", "8", "9">>
        D(n) == digits[(n % 10) + 1]
    IN  << D(dt.year \div 1000), D(dt.year \div 100), D(dt.year \div 10), D(dt.year), "-",
           D(dt.month \div 10), D(dt.month), "-",
           D(dt.day \div 10), D(dt.day) >>

\* dt.strftime("%d-%m-%Y"): two digits, two digits and four digits.
strftime_dmy(dt) ==
    LET digits == <<"0", "1", "2", "3", "4", "5", "6", "7", "8", "9">>
        D(n) == digits[(n % 10) + 1]
    IN  << D(dt.day \div 10), D(dt.day), "-",
           D(dt.month \div 10), D(dt.month), "-",
           D(dt.year \div 1000), D(dt.year \div 100), D(dt.year \div 10), D(dt.year) >>

\* Lines 743-748: the date parameter of an ISO date; a text that is none
\* means today.
iso_date(iso) ==
    IF iso.ok THEN [kind |-> "date", text |-> strftime_dmy(iso)]
    ELSE [kind |-> "none"]

\* The zone the API reports in meta.timezone for a place.
PlaceZone(city) ==
    IF city.t = "str" /\ Lower(Strip(city.s)) = <<"d", "o", "h", "a">>
    THEN "Asia/Qatar"
    ELSE "Asia/Karachi"

\* d.get("meta", {}).get("timezone"): the zone of the place asked about,
\* none when the data has no zone.
meta_timezone(api, loc) ==
    IF api.timezone = "" THEN "" ELSE PlaceZone(loc.city)

\* The date parameter of prayer_times: none (today), the day after today
\* in the zone tzname, or the day of an ISO date.
DateParam(date_req, tzname) ==
    IF ~Truthy(date_req) THEN [kind |-> "none"]
    ELSE IF Lower(Strip(date_req.s)) = <<"t", "o", "d", "a", "y">>
    THEN [kind |-> "none"]
    ELSE IF Lower(Strip(date_req.s)) = <<"t", "o", "m", "o", "r", "r", "o", "w">>
    THEN [kind |-> "tomorrow", zone |-> IF tzname # "" THEN tzname ELSE "UTC"]
    ELSE iso_date(strptime_ymd(date_req.s))

\* Lines 736-767: prayer_times for the location loc, the date param and the
\* requested prayer req.
timings_reply(prof, loc, param, req, api0, api, lang) ==
    IF param.kind = "tomorrow" /\ FetchFails(loc, api0) THEN Raised(prof)
    ELSE IF FetchFails(loc, api) \/ api.timings = {} THEN Raised(prof)
    ELSE IF req.t = "str" /\ \E i \in 1..Len(PRAYER_NAMES) : PRAYER_NAMES[i] = req.s
    THEN Returned(clear_overrides(prof),
                  [kind |-> "prayer_time", prayer |-> req.s, place |-> PlaceOf(loc),
                   date |-> param, lang |-> lang])
    ELSE Returned(clear_overrides(prof),
                  [kind |-> "prayer_times", order |-> PRAYER_ORDER,
                   place |-> PlaceOf(loc), date |-> param, lang |-> lang])

\* prayer_times(state): api0 answers the fetch that finds the zone for
\* "tomorrow", api the fetch of the timings.  A requested date that is no
\* text has no strip().
prayer_times(prof, api0, api, tr) ==
    IF Truthy(DictGet(prof, "_requested_date"))
       /\ DictGet(prof, "_requested_date").t # "str"
    THEN Raised(prof)
    ELSE timings_reply(prof, get_effective_location(prof),
                       DateParam(DictGet(prof, "_requested_date"),
                                 meta_timezone(api0, get_effective_location(prof))),
                       DictGet(prof, "_requested_prayer"), api0, api,
                       _ensure_output_language(prof, tr))

(***************************************************************************)
(* Intent handlers: the next prayer                                        *)
(***************************************************************************)
\* The timings the API serves, in minutes after local midnight.
Timetable ==
    [Fajr |-> 5 * 60, Dhuhr |-> 12 * 60, Asr |-> 15 * 60 + 30,
     Maghrib |-> 18 * 60, Isha |-> 19 * 60 + 30]

\* The local times of day, in minutes after midnight, at which a turn runs.
ClockSamples == {4 * 60, 14 * 60 + 30, 20 * 60}

MinutesPerDay == 24 * 60

\* The minutes a zone is ahead of UTC.
ZoneOffset(zone) ==
    CASE zone = "Asia/Karachi" -> 5 * 60
      [] zone = "Asia/Qatar" -> 3 * 60
      [] OTHER -> 0

\* Lines 773-775: datetime.now(tz) as a time of day, tz being the zone of
\* the profile if it has one, else the zone the API reports, else UTC;
\* now is the time of day at the place the timings are for.
now_in_zone(prof, api, loc, now) ==
    LET stored_tz == IF Has(prof, "tz") THEN prof["tz"] ELSE ""
        tzname == IF stored_tz # "" THEN stored_tz
                  ELSE IF meta_timezone(api, loc) # "" THEN meta_timezone(api, loc)
                  ELSE "UTC"
        place_tz == PlaceZone(loc.city)
    IN  (now + ZoneOffset(tzname) - ZoneOffset(place_tz) + MinutesPerDay) % MinutesPerDay

\* Lines 777-806: the next prayer after the time of day clock.
next_after(prof, loc, api, api2, clock, lang) ==
    LET Later(i) == PRAYER_ORDER[i] \notin api.timings \/ Timetable[PRAYER_ORDER[i]] > clock
        n == FirstIndex(Len(PRAYER_ORDER), Later)
        due == IF n # 0 THEN Timetable[PRAYER_ORDER[n]]
               ELSE Timetable["Fajr"] + MinutesPerDay
        left == due - clock
        reply == [kind |-> "next_prayer",
                  prayer |-> IF n # 0 THEN PRAYER_ORDER[n] ELSE "Fajr",
                  at |-> due % MinutesPerDay,
                  hours |-> left \div 60, minutes |-> left % 60,
                  place |-> PlaceOf(loc),
                  lang |-> lang]
    IN  IF FetchFails(loc, api) \/ api.timings = {} THEN Raised(prof)
        ELSE IF n # 0 /\ PRAYER_ORDER[n] \notin api.timings THEN Raised(prof)
        ELSE IF n = 0 /\ (FetchFails(loc, api2) \/ "Fajr" \notin api2.timings)
        THEN Raised(prof)
        ELSE Returned(clear_overrides(prof), reply)

\* next_prayer(state): api answers the fetch of today's timings, api2 the
\* fetch of tomorrow's, now is the time of day at the place asked about.
next_prayer(prof, api, api2, now, tr) ==
    next_after(prof, get_effective_location(prof), api, api2,
               now_in_zone(prof, api, get_effective_location(prof), now),
               _ensure_output_language(prof, tr))

(***************************************************************************)
(* Intent handlers: reminders                                              *)
(***************************************************************************)
\* The extraction call of scheduler_agent: it raises, or the text the LLM
\* answers decodes to a value (a list when it is a JSON array).
ExtractOutcomes ==
    {[raises |-> TRUE, value |-> JNull], [raises |-> FALSE, value |-> JList(1)]}
        \cup {[raises |-> FALSE, value |-> doc.value] : doc \in
            { [text |-> Flat("\"text\":\"call mom\",\"time\":\"14:30\""),
               value |-> JDict([text |-> JStr(<<"c", "a", "l", "l", " ", "m", "o", "m">>), time |-> JStr(<<"1", "4", ":", "3", "0">>)])],
              [text |-> Flat("\"text\":\"call mom\",\"time\":\"25:99\""),
               value |-> JDict([text |-> JStr(<<"c", "a", "l", "l", " ", "m", "o", "m">>), time |-> JStr(<<"2", "5", ":", "9", "9">>)])],
              [text |-> Flat("\"text\":\"call mom\",\"time\":\"in 90 minutes\""),
               value |-> JDict([text |-> JStr(<<"c", "a", "l", "l", " ", "m", "o", "m">>),
                                time |-> JStr(<<"i", "n", " ", "9", "0", " ", "m", "i", "n", "u", "t", "e", "s">>)])],
              [text |-> Flat("\"text\":null,\"time\":null"),
               value |-> JDict([text |-> JNull, time |-> JNull])] }}

UNITS ==
    << <<"m", "i", "n", "u", "t", "e">>, <<"h", "o", "u", "r">>, <<"m", "i", "n">>, <<"h", "r">>, <<"h">> >>

\* re.search(r"in\s+(\d+)\s*(minute|hour|min|hr|h)", s) at position i:
\* "in", white space, the longest run of digits, optional white space and
\* the first unit of the alternation that fits.
RelativeAt(s, i) ==
    LET IsInk(k) == k >= i + 2 /\ s[k] \notin Whitespace
        a == FirstIndex(Len(s), IsInk)
        NotDigit(k) == k >= a /\ ~IsDigit(s[k])
        b0 == FirstIndex(Len(s), NotDigit)
        b == IF b0 = 0 THEN Len(s) + 1 ELSE b0
        IsInk2(k) == k >= b /\ s[k] \notin Whitespace
        c == FirstIndex(Len(s), IsInk2)
        Fits(u) == StartsWith(SubSeq(s, c, Len(s)), UNITS[u])
        u == FirstIndex(Len(UNITS), Fits)
    IN  IF /\ i + 1 <= Len(s) /\ s[i] = "i" /\ s[i + 1] = "n"
           /\ a > i + 2 /\ b > a /\ c # 0 /\ u # 0
        THEN [ok |-> TRUE, value |-> IntOf(SubSeq(s, a, b - 1)), unit |-> UNITS[u]]
        ELSE [ok |-> FALSE, value |-> 0, unit |-> <<>>]

relative_match(s) ==
    LET At(i) == RelativeAt(s, i).ok
        i == FirstIndex(Len(s), At)
    IN  IF i = 0 THEN [ok |-> FALSE, value |-> 0, unit |-> <<>>] ELSE RelativeAt(s, i)

\* re.search(r"(\d{1,2}):(\d{2})", s) at position i: two digits before the
\* colon if they are there, else one.
ClockAt(s, i) ==
    LET Shape(h) == /\ i + h + 2 <= Len(s)
                    /\ AllDigits(SubSeq(s, i, i + h - 1))
                    /\ s[i + h] = ":"
                    /\ AllDigits(SubSeq(s, i + h + 1, i + h + 2))
        h == IF Shape(2) THEN 2 ELSE 1
    IN  IF Shape(2) \/ Shape(1)
        THEN [ok |-> TRUE, hour |-> IntOf(SubSeq(s, i, i + h - 1)),
              minute |-> IntOf(SubSeq(s, i + h + 1, i + h + 2))]
        ELSE [ok |-> FALSE, hour |-> 0, minute |-> 0]

time_match(s) ==
    LET At(i) == ClockAt(s, i).ok
        i == FirstIndex(Len(s), At)
    IN  IF i = 0 THEN [ok |-> FALSE, hour |-> 0, minute |-> 0] ELSE ClockAt(s, i)

\* What scheduler_agent leaves: an exception, or the profile without the
\* reminder slots, a reply and the reminders put in the queue.
SchedulerRaised(prof) ==
    [raises |-> TRUE, profile |-> prof, reply |-> NoReply, enqueued |-> <<>>]

\* Lines 856-859, 866-869, 901-904 and 946-950: every return of
\* scheduler_agent takes the reminder slots out of the profile.
SchedulerDone(prof, reply, queued) ==
    [raises |-> FALSE,
     profile |-> Pop(Pop(prof, "_reminder_text"), "_reminder_time"),
     reply |-> reply, enqueued |-> queued]

\* Lines 816-845: the reminder's text and time, from the slots and, for
\* what the slots lack, from the extraction call.
reminder_request(prof, ext) ==
    LET slot_text == DictGet(prof, "_reminder_text")
        slot_time == DictGet(prof, "_reminder_time")
        text0 == IF Truthy(slot_text) THEN slot_text ELSE JStr(<<>>)
        time0 == IF Truthy(slot_time) THEN slot_time ELSE JStr(<<>>)
        asks == ~Truthy(text0) \/ ~Truthy(time0)
        extracted == asks /\ ~ext.raises /\ ext.value.t = "dict"
    IN  [text |-> IF extracted /\ ~Truthy(text0)
                  THEN DictGet(ext.value.d, "text") ELSE text0,
         time |-> IF extracted /\ ~Truthy(time0)
                  THEN DictGet(ext.value.d, "time") ELSE time0]

\* due_time without the move to the next day of lines 892-893.
due_time_same_day(now, rel, abs) ==
    IF rel.ok
    THEN (IF rel.unit \in { <<"m", "i", "n", "u", "t", "e">>, <<"m", "i", "n">> }
          THEN now + rel.value
          ELSE now + 60 * rel.value)
    ELSE abs.hour * 60 + abs.minute

\* Lines 876-894: the due time in minutes after today's local midnight.
due_time(now, rel, abs) ==
    IF rel.ok
    THEN (IF rel.unit \in { <<"m", "i", "n", "u", "t", "e">>, <<"m", "i", "n">> }
          THEN now + rel.value
          ELSE now + 60 * rel.value)
    ELSE (IF abs.hour * 60 + abs.minute <= now
          THEN abs.hour * 60 + abs.minute + MinutesPerDay
          ELSE abs.hour * 60 + abs.minute)

\* schedule_at without the check of the user id at line 919.
schedule_at_any_user(prof, user, lang, due, enq, reminder_text, rel, abs) ==
    IF ~rel.ok /\ abs.ok /\ (abs.hour > 23 \/ abs.minute > 59)
    THEN SchedulerRaised(prof)
    ELSE IF ~rel.ok /\ ~abs.ok
    THEN SchedulerDone(prof, [kind |-> "reminder_time_unparsed", lang |-> lang], <<>>)
    ELSE IF enq = "raises"
    THEN SchedulerDone(prof, [kind |-> "reminder_failed", lang |-> lang], <<>>)
    ELSE SchedulerDone(prof,
                       [kind |-> "reminder_set", text |-> reminder_text,
                        at |-> due % MinutesPerDay, lang |-> lang],
                       << [wa_id |-> user, text |-> reminder_text, due |-> due] >>)

\* Lines 876-950: the reminder once its time is matched.
schedule_at(prof, user, lang, due, enq, reminder_text, rel, abs) ==
    IF ~rel.ok /\ abs.ok /\ (abs.hour > 23 \/ abs.minute > 59)
    THEN SchedulerRaised(prof)
    ELSE IF ~rel.ok /\ ~abs.ok
    THEN SchedulerDone(prof, [kind |-> "reminder_time_unparsed", lang |-> lang], <<>>)
    ELSE IF user = ""
    THEN SchedulerDone(prof, [kind |-> "reminder_no_user_id", lang |-> lang], <<>>)
    ELSE IF enq = "raises"
    THEN SchedulerDone(prof, [kind |-> "reminder_failed", lang |-> lang], <<>>)
    ELSE SchedulerDone(prof,
                       [kind |-> "reminder_set", text |-> reminder_text,
                        at |-> due % MinutesPerDay, lang |-> lang],
                       << [wa_id |-> user, text |-> reminder_text, due |-> due] >>)

\* Lines 847-950: the reminder once its text and time are known.  A time
\* that is no text has no lower().
schedule(prof, user, lang, now, enq, req) ==
    IF ~Truthy(req.text)
    THEN SchedulerDone(prof, [kind |-> "reminder_no_text", lang |-> lang], <<>>)
    ELSE IF ~Truthy(req.time)
    THEN SchedulerDone(prof, [kind |-> "reminder_no_time", lang |-> lang], <<>>)
    ELSE IF req.time.t # "str"
    THEN SchedulerRaised(prof)
    ELSE schedule_at(prof, user, lang,
                     due_time(now, relative_match(Lower(req.time.s)),
                              time_match(req.time.s)),
                     enq, req.text,
                     relative_match(Lower(req.time.s)), time_match(req.time.s))

\* scheduler_agent(state): ext answers the extraction call, now is the local
\* time of day in the user's zone, enq is what enqueue_reminder does.
scheduler_agent(prof, wa_id, ext, now, enq) ==
    schedule(prof,
             IF wa_id # "" THEN wa_id
             ELSE IF Has(prof, "_wa_id") THEN prof["_wa_id"] ELSE "",
             _lang(prof), now, enq, reminder_request(prof, ext))

(***************************************************************************)
(* Intent handlers: the calendar and the fallback                          *)
(***************************************************************************)
\* mcp_client imports get_zapier_mcp_url, and calendar_connect imports
\* set_zapier_mcp_url, from data.db_postgres, which defines neither: the
\* import statement at the head of each calendar handler raises ImportError.
zapier_mcp_url_defined == FALSE

\* What the calendar bridge can do once it is imported: whether a URL is
\* stored for the user, and what the tool call gives.
CalendarReply(kind, lang) == [kind |-> kind, lang |-> lang]

\* calendar_connect, calendar_create_event, calendar_view_events,
\* calendar_find_events and calendar_delete_event, by node name.
calendar_handler(node, prof, question, wa_id, cal) ==
    LET lang == _lang(prof)
        needs_id == node \in {"calendar_connect", "calendar_create_event",
                              "calendar_view_events"}
        tool_reply ==
            IF cal.tool = "success" THEN CalendarReply(node \o ":done", lang)
            ELSE IF cal.tool = "error" THEN CalendarReply("tool_error_text", "en")
            ELSE CalendarReply(node \o ":failed", lang)
    IN  IF ~zapier_mcp_url_defined THEN Raised(prof)
        ELSE IF needs_id /\ wa_id = ""
        THEN Returned(prof, CalendarReply("no_user_id", lang))
        ELSE IF node = "calendar_connect"
        THEN Returned(prof, CalendarReply(
                 IF cal.connected THEN "already_connected" ELSE "send_url", lang))
        ELSE IF ~cal.connected
        THEN Returned(prof, CalendarReply("not_connected", lang))
        ELSE IF node = "calendar_delete_event"
        THEN Returned(prof, CalendarReply("need_event_id", lang))
        ELSE Returned(prof, tool_reply)

\* general(state)
general(prof) ==
    Returned(prof, [kind |-> "general", lang |-> IF _lang(prof) = "ar" THEN "ar" ELSE "en"])

(***************************************************************************)
(* The messages a user sends                                               *)
(***************************************************************************)
\* The message bodies a user sends: a yes with blanks around it, a no, a
\* name in Arabic letters, an email address, a location line and a question.
Bodies ==
    { <<" ", "O", "K", " ">>,
      <<"N", "o">>,
      <<"U+0639", "U+0644", "U+064A">>,
      <<"a", "@", "b", ".", "c", "o", "m">>,
      <<"L", "a", "h", "o", "r", "e", " ", "-", " ", "P", "a", "k", "i", "s", "t", "a", "n">>,
      <<"T", "o", "d", "a", "y", "?">> }

\* The WhatsApp identifier of the user.
WaId == "923001234567"

(***************************************************************************)
(* State                                                                   *)
(***************************************************************************)
VARIABLES
    users,          \* the user's row in Postgres
    session,        \* the user's session in Redis
    digest_subs,    \* the Redis set digest:subs
    subscribe_called, \* subscribe_to_digest has been called for the user
    completed,      \* a stored profile of the user has been in COMPLETE
    pc,             \* the node of the graph the turn is at, or idle
    question,       \* state["question"]
    stored,         \* the profile get_profile gave at the start of the turn
    profile,        \* state["profile"]
    reply,          \* state["reply"]
    intent,         \* state["intent"]
    wa_id,          \* state["wa_id"]
    branch,         \* the branch ensure_profile took in this turn
    llm_answer,     \* what the router LLM did in this turn, if it was asked
    ran,            \* the handler nodes run in this turn
    enqueued,       \* the reminders this turn put in the queue
    call,           \* the handler's call: the profile it was entered with
                    \* and what the clock, the extraction call and the
                    \* queue answered
    recent,         \* the Redis set recent:{wa_id} of the user
    delivery,       \* the deliveries of the webhook, each at its step
    epoch,          \* the time, in seconds since the epoch
    zset,           \* the Redis sorted set reminders:zset
    redis_keys,     \* the Redis keys digest:sent:* and prayer_reminder:*
    outbox,         \* what the scheduled jobs sent, with the time of the send
    job,            \* the tick of a scheduled job that is running, if any
    enqueue_calls,  \* the calls of enqueue_reminder so far
    request         \* the POST that whatsapp_inbound is answering

\* The variables of a turn, from get_profile to set_profile.
turn_vars ==
    << users, session, digest_subs, subscribe_called, completed, pc, question,
       stored, profile, reply, intent, wa_id, branch, llm_answer, ran,
       enqueued, call >>

\* The variables of the scheduled jobs and of the webhook's loop over the
\* messages of one POST.
job_vars == << epoch, zset, redis_keys, outbox, job, enqueue_calls, request >>

vars == << turn_vars, recent, delivery, job_vars >>

NotAsked == [asked |-> FALSE, raises |-> FALSE, content |-> <<>>]

\* No handler has been called in this turn: the profile a handler was
\* entered with, the clock it read, what the extraction and the queue did,
\* what the API answered to the location probe, and the language that
\* whatsapp_inbound put in the profile it passed to handle_turn.
NoCall ==
    [entered |-> EmptyDict, now |-> 0,
     ext |-> [raises |-> FALSE, value |-> JNull], enq |-> "none",
     api |-> [raises |-> FALSE, timings |-> {}, timezone |-> "", dated |-> FALSE],
     lang |-> ""]

\* The key recent:{wa_id} does not exist.
NoRecent == [members |-> {}, ttl |-> FALSE]

\* The deliveries of the webhook that the model follows.
Deliveries == {"first", "second", "third"}

\* The identifiers a message comes with; msg.get("id") or "" is empty for
\* a message without one.
MessageIds == {"wamid.A", "wamid.B", ""}

\* No reminder is queued, no key is set, nothing has been sent, no tick is
\* running and no POST is being answered.
NoJob ==
    [at |-> "idle", items |-> <<>>, now |-> 0, dedupe |-> TRUE,
     sub |-> [now |-> 0, tz |-> "", key |-> <<>>]]

NoRequest == [at |-> "none", messages |-> <<>>, next |-> 0, reached |-> {}, status |-> ""]

NoJobs ==
    /\ epoch = 0
    /\ zset = {}
    /\ redis_keys = {}
    /\ outbox = <<>>
    /\ job = NoJob
    /\ enqueue_calls = <<>>
    /\ request = NoRequest

HandlerNodes ==
    { "islamic_date", "prayer_times", "next_prayer", "scheduler_agent",
      "calendar_connect", "calendar_create_event", "calendar_view_events",
      "calendar_find_events", "calendar_delete_event", "general" }

Init ==
    /\ users = NoRow
    /\ session = NoSession
    /\ digest_subs = {}
    /\ subscribe_called = FALSE
    /\ completed = FALSE
    /\ pc = "idle"
    /\ question = <<>>
    /\ stored = EmptyDict
    /\ profile = EmptyDict
    /\ reply = NoReply
    /\ intent = <<>>
    /\ wa_id = ""
    /\ branch = ""
    /\ llm_answer = NotAsked
    /\ ran = <<>>
    /\ enqueued = <<>>
    /\ call = NoCall
    /\ recent = NoRecent
    /\ delivery = [d \in Deliveries |-> [at |-> "none", id |-> "", added |-> 0, profile |-> EmptyDict]]
    /\ NoJobs

(***************************************************************************)
(* The webhook: one text or voice message, from get_profile to handle_turn *)
(***************************************************************************)
\* whatsapp_inbound up to the call of handle_turn, and handle_turn up to
\* the start of the graph: the text is the stripped body (a voice note's
\* transcript comes with the language of the transcription), an empty text
\* starts no turn, the profile is loaded and gets the message's language,
\* and handle_turn sets the language from the text.
Turn(bodies, ids) ==
    /\ pc = "idle"
    /\ \E body \in bodies, voice \in BOOLEAN, stt_lang \in {"ar", "en"} :
         LET text == Strip(body)
             loaded == get_profile(users, session)
             lang == IF voice THEN stt_lang
                     ELSE (IF _has_ar(text) THEN "ar" ELSE "en")
         IN  /\ text # <<>>
             /\ question' = text
             /\ stored' = loaded
             /\ profile' = _auto_set_lang(Put(loaded, "lang", lang), text)
             /\ call' = [NoCall EXCEPT !.lang = lang]
    /\ wa_id' \in ids
    /\ reply' = NoReply
    /\ intent' = <<>>
    /\ branch' = ""
    /\ llm_answer' = NotAsked
    /\ ran' = <<>>
    /\ enqueued' = <<>>
    /\ pc' = "ensure_profile"
    /\ UNCHANGED << users, session, digest_subs, subscribe_called, completed,
                    recent, delivery, job_vars >>

\* A message of the user arrives at the webhook, which passes its sender.
Receive == Turn(Bodies, {WaId})

\* handle_turn is called for an onboarded user's question: one with a date
\* keyword, one that names a country, one that holds a country's name
\* inside a longer word, and one with a country alias.  The webhook passes
\* the sender as wa_id, another caller may pass none.
Ask ==
    Turn({ <<"T", "o", "d", "a", "y", "?">>,
           <<"Q", "a", "t", "a", "r", "?">>,
           <<"O", "m", "a", "n", "i">>,
           <<"H", "i", " ", "p", "k">>,
           <<"F", "a", "j", "r", " ", "U+0627", "U+0644", "U+064A", "U+0648", "U+0645">> },
         {WaId, ""})

\* What ensure_profile leaves in the state; the reply stays when none is set.
\* api is what the prayer-times API answered when line 551 probed it.
Ensured(out, api) ==
    /\ profile' = out.profile
    /\ call' = IF out.branch \in {"loc_invalid", "loc_staged"}
               THEN [call EXCEPT !.api = api] ELSE call
    /\ reply' = IF out.reply = NoReply THEN reply ELSE out.reply
    /\ branch' = out.branch
    /\ IF out.subscribes
       THEN /\ subscribe_called' = TRUE
            /\ digest_subs' = digest_subs \cup {wa_id}
       ELSE UNCHANGED << digest_subs, subscribe_called >>
    /\ pc' = route_after_profile(out.profile)

\* The node ensure_profile and the edge after it.
EnsureProfile ==
    /\ pc = "ensure_profile"
    /\ \E api \in AladhanOutcomes :
         Ensured(ensure_profile(profile, question, wa_id, api), api)
    /\ UNCHANGED << users, session, completed, question, stored, intent, wa_id,
                    llm_answer, ran, enqueued, recent, delivery, job_vars >>

\* The node noop.
Noop ==
    /\ pc = "noop"
    /\ profile' = noop(profile)
    /\ pc' = "done"
    /\ UNCHANGED << users, session, digest_subs, subscribe_called, completed,
                    question, stored, reply, intent, wa_id, branch, llm_answer,
                    ran, enqueued, call, recent, delivery, job_vars >>

\* What classify leaves in the state.
Classified(out, llm) ==
    /\ llm_answer' = IF out.called
                     THEN [asked |-> TRUE, raises |-> llm.raises,
                           content |-> llm.content]
                     ELSE NotAsked
    /\ IF out.raises
       THEN /\ pc' = "raised"
            /\ UNCHANGED << profile, intent >>
       ELSE /\ profile' = out.profile
            /\ intent' = out.intent
            /\ pc' = route(out.intent)

\* The node classify and the edge after it, the LLM answering with one of
\* outcomes; an exception ends the graph.
ClassifyFrom(outcomes) ==
    /\ pc = "classify"
    /\ \E llm \in outcomes : Classified(classify(profile, question, llm), llm)
    /\ UNCHANGED << users, session, digest_subs, subscribe_called, completed,
                    question, stored, reply, wa_id, branch, ran, enqueued, call,
                    recent, delivery, job_vars >>

Classify == ClassifyFrom(LlmOutcomes)

\* The classifier with the LLM also answering the texts of SlotDocuments.
SlotClassify ==
    ClassifyFrom(LlmOutcomes
                    \cup {[raises |-> FALSE, content |-> doc.text] : doc \in SlotDocuments})

\* What a handler node leaves in the state.
Leave(node, out) ==
    /\ ran' = Append(ran, node)
    /\ call' = [call EXCEPT !.entered = profile]
    /\ IF out.raises
       THEN /\ pc' = "raised"
            /\ UNCHANGED << profile, reply >>
       ELSE /\ pc' = "done"
            /\ profile' = out.profile
            /\ reply' = out.reply

handler_frame ==
    << users, session, digest_subs, subscribe_called, completed, question,
       stored, intent, wa_id, branch, llm_answer, recent, delivery, job_vars >>

IslamicDate ==
    /\ pc = "islamic_date"
    /\ \E api \in AladhanOutcomes, tr \in TranslateOutcomes :
         Leave("islamic_date", islamic_date(profile, api, tr))
    /\ UNCHANGED << handler_frame, enqueued >>

PrayerTimes ==
    /\ pc = "prayer_times"
    /\ \E api0 \in AladhanOutcomes, api \in AladhanOutcomes, tr \in TranslateOutcomes :
         Leave("prayer_times", prayer_times(profile, api0, api, tr))
    /\ UNCHANGED << handler_frame, enqueued >>

\* What next_prayer leaves in the state; now is the time of day it was
\* called at.
NextLeft(out, now) ==
    /\ ran' = Append(ran, "next_prayer")
    /\ call' = [call EXCEPT !.entered = profile, !.now = now]
    /\ IF out.raises
       THEN /\ pc' = "raised"
            /\ UNCHANGED << profile, reply >>
       ELSE /\ pc' = "done"
            /\ profile' = out.profile
            /\ reply' = out.reply

NextPrayer ==
    /\ pc = "next_prayer"
    /\ \E api \in AladhanOutcomes, api2 \in AladhanOutcomes,
          now \in ClockSamples, tr \in TranslateOutcomes :
         NextLeft(next_prayer(profile, api, api2, now, tr), now)
    /\ UNCHANGED << handler_frame, enqueued >>

\* What scheduler_agent leaves in the state.
Scheduled(out, ext, now, enq) ==
    /\ ran' = Append(ran, "scheduler_agent")
    /\ call' = [call EXCEPT !.entered = profile, !.now = now, !.ext = ext,
                            !.enq = enq]
    /\ enqueued' = enqueued \o out.enqueued
    /\ IF out.raises
       THEN /\ pc' = "raised"
            /\ UNCHANGED << profile, reply >>
       ELSE /\ pc' = "done"
            /\ profile' = out.profile
            /\ reply' = out.reply

SchedulerAgent ==
    /\ pc = "scheduler_agent"
    /\ \E ext \in ExtractOutcomes, now \in ClockSamples, enq \in {"ok", "raises"} :
         Scheduled(scheduler_agent(profile, wa_id, ext, now, enq), ext, now, enq)
    /\ UNCHANGED handler_frame

Calendar ==
    /\ pc \in { "calendar_connect", "calendar_create_event", "calendar_view_events",
               "calendar_find_events", "calendar_delete_event" }
    /\ \E cal \in [connected : BOOLEAN, tool : {"success", "error", "no_error_text"}] :
         Leave(pc, calendar_handler(pc, profile, question, wa_id, cal))
    /\ UNCHANGED << handler_frame, enqueued >>

General ==
    /\ pc = "general"
    /\ Leave("general", general(profile))
    /\ UNCHANGED << handler_frame, enqueued >>

\* The request is over: nothing of the turn is kept in the process.
EndOfRequest ==
    /\ pc' = "idle"
    /\ question' = <<>>
    /\ stored' = EmptyDict
    /\ profile' = EmptyDict
    /\ reply' = NoReply
    /\ intent' = <<>>
    /\ wa_id' = ""
    /\ branch' = ""
    /\ llm_answer' = NotAsked
    /\ ran' = <<>>
    /\ enqueued' = <<>>
    /\ call' = NoCall

\* handle_turn returns; whatsapp_inbound stores the profile it returned and
\* sends the reply; its loop goes on with the next message of the POST.
Reply ==
    /\ pc = "done"
    /\ users' = set_profile_row(users, profile)
    /\ session' = set_profile_session(profile)
    /\ completed' = (completed \/ IsComplete(profile))
    /\ EndOfRequest
    /\ request' = IF request.at = "turn"
                  THEN [request EXCEPT !.at = "loop", !.next = @ + 1]
                  ELSE request
    /\ UNCHANGED << digest_subs, subscribe_called, recent, delivery, epoch, zset,
                    redis_keys, outbox, job, enqueue_calls >>

\* An exception left handle_turn: whatsapp_inbound catches it after the
\* call, so that the profile of the turn is not stored.  The except clause
\* of lines 563-564 is outside the loops over the messages: the POST is
\* answered at once.
Abort ==
    /\ pc = "raised"
    /\ EndOfRequest
    /\ request' = IF request.at = "turn"
                  THEN [request EXCEPT !.at = "answered", !.status = "ok"]
                  ELSE request
    /\ UNCHANGED << users, session, digest_subs, subscribe_called, completed,
                    recent, delivery, epoch, zset, redis_keys, outbox, job,
                    enqueue_calls >>

\* The session key reaches its time to live.
SessionExpires ==
    /\ pc = "idle"
    /\ session.exists
    /\ session' = NoSession
    /\ UNCHANGED << users, digest_subs, subscribe_called, completed, pc,
                    question, stored, profile, reply, intent, wa_id, branch,
                    llm_answer, ran, enqueued, call, recent, delivery, job_vars >>

Next ==
    \/ Receive
    \/ EnsureProfile
    \/ Noop
    \/ Classify
    \/ IslamicDate
    \/ PrayerTimes
    \/ NextPrayer
    \/ SchedulerAgent
    \/ Calendar
    \/ General
    \/ Reply
    \/ Abort
    \/ SessionExpires

Spec == Init /\ [][Next]_vars

(***************************************************************************)
(* The turns of an onboarded user                                          *)
(***************************************************************************)
\* The profile of a user who has finished onboarding.
Onboarded ==
    [k \in {"name", "email", "city", "country", "tz", "lang", "_setup_done"} |->
        CASE k = "name" -> <<"U+0639", "U+0644", "U+064A">>
          [] k = "email" -> <<"a", "@", "b", ".", "c", "o", "m">>
          [] k = "city" -> <<"L", "a", "h", "o", "r", "e">>
          [] k = "country" -> <<"P", "a", "k", "i", "s", "t", "a", "n">>
          [] k = "tz" -> "Asia/Karachi"
          [] k = "lang" -> "ar"
          [] k = "_setup_done" -> TRUE]

\* The state after the turn that finished the onboarding.
DispatchInit ==
    /\ users = set_profile_row(NoRow, Onboarded)
    /\ session = set_profile_session(Onboarded)
    /\ digest_subs = {WaId}
    /\ subscribe_called = TRUE
    /\ completed = TRUE
    /\ pc = "idle"
    /\ question = <<>>
    /\ stored = EmptyDict
    /\ profile = EmptyDict
    /\ reply = NoReply
    /\ intent = <<>>
    /\ wa_id = ""
    /\ branch = ""
    /\ llm_answer = NotAsked
    /\ ran = <<>>
    /\ enqueued = <<>>
    /\ call = NoCall
    /\ recent = NoRecent
    /\ delivery = [d \in Deliveries |-> [at |-> "none", id |-> "", added |-> 0, profile |-> EmptyDict]]
    /\ NoJobs

DispatchNext ==
    \/ Ask
    \/ EnsureProfile
    \/ SlotClassify
    \/ IslamicDate
    \/ PrayerTimes
    \/ NextPrayer
    \/ SchedulerAgent
    \/ Calendar
    \/ General
    \/ Reply
    \/ Abort

DispatchSpec == DispatchInit /\ [][DispatchNext]_vars

(***************************************************************************)
(* The lines a user sends when the location is asked for                   *)
(***************************************************************************)
\* The user has given a name and an email address and is asked for the
\* location: ensure_profile takes the branch of lines 544-569.
LocationInit ==
    LET awaiting ==
            [k \in {"name", "email", "lang", "_await"} |->
                CASE k = "name" -> <<"A", "l", "i">>
                  [] k = "email" -> <<"a", "@", "b", ".", "c", "o", "m">>
                  [] k = "lang" -> "en"
                  [] k = "_await" -> "location"]
    IN  /\ users = set_profile_row(NoRow, awaiting)
        /\ session = set_profile_session(awaiting)
        /\ digest_subs = {}
        /\ subscribe_called = FALSE
        /\ completed = FALSE
        /\ pc = "idle"
        /\ question = <<>>
        /\ stored = EmptyDict
        /\ profile = EmptyDict
        /\ reply = NoReply
        /\ intent = <<>>
        /\ wa_id = ""
        /\ branch = ""
        /\ llm_answer = NotAsked
        /\ ran = <<>>
        /\ enqueued = <<>>
        /\ call = NoCall
        /\ recent = NoRecent
        /\ delivery = [d \in Deliveries |-> [at |-> "none", id |-> "", added |-> 0, profile |-> EmptyDict]]
        /\ NoJobs

\* The user sends a line: a left side, a separator or none, a right side;
\* or the user sends a yes or a no.
SendLine ==
    Turn({ <<"O", "K">>, <<"N", "o">> } \cup
         { left \o sep \o right :
             left \in { <<"l", "a", "h", "o", "r", "e">>, <<"L">>,
                        <<"a", "l", "-", "a", "i", "n">>,
                        <<"n", "e", "w", " ", "y", "o", "r", "k">> },
             sep \in { <<>>, <<"-">>, <<" ", "-", " ">> },
             right \in { <<"p", "a", "k", "i", "s", "t", "a", "n">>, <<"Z">>,
                         <<"P", "K">>, <<"p", "k">>, <<"Z", "z">>,
                         <<"P", "a", "k">>, <<>> } },
         {WaId})

\* The node ensure_profile with the API answering for places of two zones.
ProbeEnsureProfile ==
    /\ pc = "ensure_profile"
    /\ \E api \in AladhanOutcomes \cup
                  {[raises |-> FALSE, timings |-> PrayerKeys,
                    timezone |-> "Asia/Qatar", dated |-> TRUE]} :
         Ensured(ensure_profile(profile, question, wa_id, api), api)
    /\ UNCHANGED << users, session, completed, question, stored, intent, wa_id,
                    llm_answer, ran, enqueued, recent, delivery, job_vars >>

\* The turns up to the one that commits the location.
LocationNext ==
    \/ SendLine
    \/ ProbeEnsureProfile
    \/ Noop
    \/ Reply

LocationSpec == LocationInit /\ [][LocationNext]_vars

(***************************************************************************)
(* The idempotency check of the webhook                                    *)
(***************************************************************************)
\* r.sadd(key, msg_id): one Redis command, 1 if the member is new.
sadd(key, member) ==
    [key |-> [key EXCEPT !.members = @ \cup {member}],
     added |-> IF member \in key.members THEN 0 ELSE 1]

\* A POST of the webhook brings a message of the user.
Deliver ==
    \E d \in Deliveries, id \in MessageIds :
        /\ delivery[d].at = "none"
        /\ delivery' = [delivery EXCEPT ![d] = [at |-> "already_seen", id |-> id, added |-> 0,
                                                profile |-> EmptyDict]]
        /\ UNCHANGED << turn_vars, recent, job_vars >>

\* already_seen up to its first await: False for an empty identifier,
\* else SADD, and False when Redis fails.
AlreadySeenSadd ==
    \E d \in Deliveries, redis \in {"ok", "raises"} :
        /\ delivery[d].at = "already_seen"
        /\ IF delivery[d].id = "" \/ redis = "raises"
           THEN /\ delivery' = [delivery EXCEPT ![d].at = "handle_turn"]
                /\ UNCHANGED recent
           ELSE /\ recent' = sadd(recent, delivery[d].id).key
                /\ delivery' = [delivery EXCEPT
                                   ![d].at = "expire",
                                   ![d].added = sadd(recent, delivery[d].id).added]
        /\ UNCHANGED << turn_vars, job_vars >>

\* already_seen from EXPIRE to its return, and the webhook's continue: the
\* message is skipped when SADD added nothing, and handled when EXPIRE fails.
AlreadySeenExpire ==
    \E d \in Deliveries, redis \in {"ok", "raises"} :
        /\ delivery[d].at = "expire"
        /\ IF redis = "raises"
           THEN /\ delivery' = [delivery EXCEPT ![d].at = "handle_turn"]
                /\ UNCHANGED recent
           ELSE /\ recent' = [recent EXCEPT !.ttl = TRUE]
                /\ delivery' = [delivery EXCEPT ![d].at =
                                   IF delivery[d].added = 0 THEN "skipped" ELSE "handle_turn"]
        /\ UNCHANGED << turn_vars, job_vars >>

\* The webhook calls handle_turn for the message of the delivery.
HandleTurn ==
    \E d \in Deliveries :
        /\ delivery[d].at = "handle_turn"
        /\ delivery' = [delivery EXCEPT ![d].at = "handled"]
        /\ UNCHANGED << turn_vars, recent, job_vars >>

\* The key recent:{wa_id} reaches the time to live EXPIRE gave it.
RecentExpires ==
    /\ recent.ttl
    /\ recent' = NoRecent
    /\ UNCHANGED << turn_vars, delivery, job_vars >>

DedupNext ==
    \/ Deliver
    \/ AlreadySeenSadd
    \/ AlreadySeenExpire
    \/ HandleTurn
    \/ RecentExpires

DedupSpec == Init /\ [][DedupNext]_vars

(***************************************************************************)
(* Two messages of one user handled at the same time                       *)
(***************************************************************************)
\* The user has been asked to confirm the staged location, and the profile
\* with the staged location is in the row and in the session.
RaceInit ==
    LET asked ==
            [k \in {"name", "email", "city", "country", "lang", "_staged_loc",
                    "_confirm_loc"} |->
                CASE k = "name" -> <<"A", "l", "i">>
                  [] k = "email" -> <<"a", "@", "b", ".", "c", "o", "m">>
                  [] k = "city" -> <<>>
                  [] k = "country" -> <<>>
                  [] k = "lang" -> "en"
                  [] k = "_staged_loc" ->
                        [city |-> <<"L", "a", "h", "o", "r", "e">>,
                         country |-> <<"P", "a", "k", "i", "s", "t", "a", "n">>,
                         tz |-> "Asia/Karachi"]
                  [] k = "_confirm_loc" -> TRUE]
    IN  /\ users = set_profile_row(NoRow, asked)
        /\ session = set_profile_session(asked)
        /\ digest_subs = {}
        /\ subscribe_called = FALSE
        /\ completed = FALSE
        /\ pc = "idle"
        /\ question = <<>>
        /\ stored = EmptyDict
        /\ profile = EmptyDict
        /\ reply = NoReply
        /\ intent = <<>>
        /\ wa_id = ""
        /\ branch = ""
        /\ llm_answer = NotAsked
        /\ ran = <<>>
        /\ enqueued = <<>>
        /\ call = NoCall
        /\ recent = NoRecent
        /\ delivery = [d \in Deliveries |-> [at |-> "none", id |-> "", added |-> 0, profile |-> EmptyDict]]
        /\ NoJobs

\* whatsapp_inbound for one of two messages, from get_profile to the return
\* of handle_turn, while no other delivery has written yet: the turn ends
\* in noop, or the classifier's LLM call raises, or general answers.
RaceTurn ==
    \E d \in {"first", "second"}, llm \in LlmOutcomes, api \in AladhanOutcomes,
       body \in { <<"O", "K">>, <<"N", "o">>, <<"H", "i">> } :
        LET loaded == get_profile(users, session)
            lang == IF _has_ar(body) THEN "ar" ELSE "en"
            out == ensure_profile(_auto_set_lang(Put(loaded, "lang", lang), body),
                                  body, WaId, api)
            to_noop == route_after_profile(out.profile) = "noop"
            c == classify(out.profile, body, llm)
        IN  /\ delivery[d].at = "none"
            /\ \A e \in Deliveries : delivery[e].at \in {"none", "set_row", "raised"}
            /\ to_noop \/ c.raises \/ c.intent = L_general
            /\ delivery' =
                   [delivery EXCEPT
                       ![d].at = IF ~to_noop /\ c.raises THEN "raised" ELSE "set_row",
                       ![d].profile = IF to_noop THEN noop(out.profile)
                                      ELSE IF c.raises THEN EmptyDict
                                      ELSE general(c.profile).profile]
            /\ IF out.subscribes
               THEN /\ subscribe_called' = TRUE
                    /\ digest_subs' = digest_subs \cup {WaId}
               ELSE UNCHANGED << digest_subs, subscribe_called >>
            /\ UNCHANGED << job_vars, users, session, completed, pc, question, stored, profile,
                            reply, intent, wa_id, branch, llm_answer, ran, enqueued,
                            call, recent >>

\* set_profile up to its first await: the row is written.
RaceSetRow ==
    \E d \in Deliveries :
        /\ delivery[d].at = "set_row"
        /\ users' = set_profile_row(users, delivery[d].profile)
        /\ delivery' = [delivery EXCEPT ![d].at = "set_session"]
        /\ UNCHANGED << job_vars, session, digest_subs, subscribe_called, completed, pc,
                        question, stored, profile, reply, intent, wa_id, branch,
                        llm_answer, ran, enqueued, call, recent >>

\* set_profile from the write of the session to its return.
RaceSetSession ==
    \E d \in Deliveries :
        /\ delivery[d].at = "set_session"
        /\ session' = set_profile_session(delivery[d].profile)
        /\ completed' = (completed \/ IsComplete(delivery[d].profile))
        /\ delivery' = [delivery EXCEPT ![d].at = "stored"]
        /\ UNCHANGED << job_vars, users, digest_subs, subscribe_called, pc, question, stored,
                        profile, reply, intent, wa_id, branch, llm_answer, ran,
                        enqueued, call, recent >>

RaceNext ==
    \/ RaceTurn
    \/ RaceSetRow
    \/ RaceSetSession

RaceSpec == RaceInit /\ [][RaceNext]_vars

(***************************************************************************)
(* Scheduled jobs: the queue of reminders                                  *)
(***************************************************************************)
\* The last second the reminder queue is followed to.
MaxEpoch == 5

\* The due_utc of the reminders that are put in the queue.
ReminderDues == {1, 3, 7}

\* The calls of enqueue_reminder that are followed.
MaxEnqueueCalls == 3

\* Line 220: the payload of a reminder.
ReminderPayloads ==
    { [wa_id |-> WaId, text |-> <<"c", "a", "l", "l", " ", "m", "o", "m">>,
       due_utc |-> due] : due \in ReminderDues }

\* json.dumps of a payload and json.loads of the text it gave: the text
\* is not the payload, and decodes to it.
json_dumps(payload) == [json |-> payload]

json_loads_raw(raw) == raw.json

\* What send_whatsapp_text does with a message: the API takes it, the API
\* answers an error status (logged, the call returns), or the request
\* raises.
SendOutcomes == {"sent", "refused", "raises"}

\* ZADD key score member: a member that is in the set gets the new score.
zadd(z, member, score) ==
    {m \in z : m.member # member} \cup {[member |-> member, score |-> score]}

\* ZRANGEBYSCORE key min max: the members in the range, by rising score.
RECURSIVE zrangebyscore(_, _, _)
zrangebyscore(z, min, max) ==
    LET range == {m \in z : min <= m.score /\ m.score <= max}
    IN  IF range = {} THEN <<>>
        ELSE LET first == CHOOSE m \in range : \A o \in range : m.score <= o.score
             IN  <<first.member>> \o zrangebyscore(range \ {first}, min, max)

\* ZREM key member...: the members leave the set.
zrem(z, members) ==
    {m \in z : \A i \in 1..Len(members) : m.member # members[i]}

\* enqueue_reminder, called by scheduler_agent in a turn.
enqueue_reminder ==
    /\ Len(enqueue_calls) < MaxEnqueueCalls
    /\ \E payload \in ReminderPayloads :
         /\ zset' = zadd(zset, json_dumps(payload), payload.due_utc)
         /\ enqueue_calls' = Append(enqueue_calls, payload)
    /\ UNCHANGED << turn_vars, recent, delivery, epoch, redis_keys, outbox, job,
                    request >>

\* A second passes.
SecondPasses ==
    /\ epoch < MaxEpoch
    /\ epoch' = epoch + 1
    /\ UNCHANGED << turn_vars, recent, delivery, zset, redis_keys, outbox, job,
                    enqueue_calls, request >>

\* run_reminder_tick, lines 230-234: the members that are due one second
\* from now; the tick returns when there are none.
ReminderTickRange ==
    /\ job.at = "idle"
    /\ LET now == epoch + 1
           items == zrangebyscore(zset, 0, now)
       IN  job' = IF items = <<>> THEN job
                  ELSE [job EXCEPT !.at = "zrem", !.items = items, !.now = now]
    /\ UNCHANGED << turn_vars, recent, delivery, epoch, zset, redis_keys, outbox,
                    enqueue_calls, request >>

\* A tick that leaves the members it read in the queue.
ReminderTickKeeps ==
    /\ job.at = "zrem"
    /\ job' = [job EXCEPT !.at = "send"]
    /\ UNCHANGED << turn_vars, recent, delivery, epoch, zset, redis_keys, outbox,
                    enqueue_calls, request >>

\* run_reminder_tick, line 235: the members read leave the queue.
ReminderTickZrem ==
    /\ job.at = "zrem"
    /\ zset' = zrem(zset, job.items)
    /\ job' = [job EXCEPT !.at = "send"]
    /\ UNCHANGED << turn_vars, recent, delivery, epoch, redis_keys, outbox,
                    enqueue_calls, request >>

\* run_reminder_tick, lines 236-241: the next member read is decoded and
\* sent; an exception of the send is logged and the loop goes on.
ReminderTickSend ==
    /\ job.at = "send"
    /\ \E outcome \in SendOutcomes :
         LET data == json_loads_raw(Head(job.items))
         IN  outbox' = Append(outbox, [kind |-> "reminder", to |-> data.wa_id,
                                       of |-> data, at |-> epoch,
                                       outcome |-> outcome])
    /\ job' = IF Tail(job.items) = <<>> THEN NoJob
              ELSE [job EXCEPT !.items = Tail(job.items)]
    /\ UNCHANGED << turn_vars, recent, delivery, epoch, zset, redis_keys,
                    enqueue_calls, request >>

ReminderNext ==
    \/ enqueue_reminder
    \/ SecondPasses
    \/ ReminderTickRange
    \/ ReminderTickZrem
    \/ ReminderTickSend

ReminderSpec == Init /\ [][ReminderNext]_vars

(***************************************************************************)
(* Scheduled jobs: the daily digest                                        *)
(***************************************************************************)
SecondsPerDay == 24 * 60 * 60

\* DIGEST_HOUR and DIGEST_MINUTE of the environment.
DIGEST_HOUR == 16

DIGEST_MINUTE == 9

\* The last day the digest is followed to, the first one being day 0.
MaxDay == 1

\* zoneinfo.ZoneInfo(tz_name) raises for a name that is no zone.
ZoneNames == {"Asia/Karachi", "Asia/Qatar", "UTC"}

\* datetime.now(tz) at the second t: the seconds since the first midnight
\* of the zone, and its date, hour and minute.
now_local(t, tz) ==
    LET local == t + ZoneOffset(tz) * 60
    IN  [seconds |-> local,
         date |-> local \div SecondsPerDay,
         hour |-> (local % SecondsPerDay) \div 3600,
         minute |-> (local % 3600) \div 60]

\* The places a subscriber lives at, one after the other; the last one is
\* that of a profile without a zone.
DigestPlaces ==
    { [city |-> <<"L", "a", "h", "o", "r", "e">>,
       country |-> <<"P", "a", "k", "i", "s", "t", "a", "n">>, tz |-> "Asia/Karachi"],
      [city |-> <<"D", "o", "h", "a">>,
       country |-> <<"Q", "a", "t", "a", "r">>, tz |-> "Asia/Qatar"],
      [city |-> <<"D", "o", "h", "a">>,
       country |-> <<"Q", "a", "t", "a", "r">>, tz |-> ""] }

\* The seconds at which something happens: in each zone and on each day,
\* the minutes around the configured time of the digest.
DigestInstants ==
    { day * SecondsPerDay + (DIGEST_HOUR * 60 + DIGEST_MINUTE) * 60 + s
          - ZoneOffset(place.tz) * 60 :
        day \in 0..MaxDay, s \in {-120, -60, 0, 60, 119, 120},
        place \in {p \in DigestPlaces : p.tz # ""} }

\* Time passes between two ticks, up to one of the instants: a tick is
\* followed at the second it started.
TimePasses(instants) ==
    /\ job.at = "idle"
    /\ \E t \in instants : t > epoch /\ epoch' = t
    /\ UNCHANGED << turn_vars, recent, delivery, zset, redis_keys, outbox, job,
                    enqueue_calls, request >>

\* GET key: the key is set and has not reached its time to live.
redis_get(keys, key, t) == \E k \in keys : k.key = key /\ k.expires > t

\* SET key "1" EX ex at the second t.
redis_set(keys, key, ex, t) ==
    {k \in keys : k.key # key} \cup {[key |-> key, expires |-> t + ex]}

\* A user with a complete profile who is subscribed to the digest, and the
\* value DIGEST_DEDUPE has for the job.
DigestInit ==
    LET home == CHOOSE place \in DigestPlaces : place.tz = "Asia/Karachi"
        done == [k \in {"name", "email", "city", "country", "tz", "lang", "_setup_done"} |->
                    CASE k = "name" -> <<"A", "l", "i">>
                      [] k = "email" -> <<"a", "@", "b", ".", "c", "o", "m">>
                      [] k = "city" -> home.city
                      [] k = "country" -> home.country
                      [] k = "tz" -> home.tz
                      [] k = "lang" -> "en"
                      [] OTHER -> "1"]
    IN  /\ users = set_profile_row(NoRow, done)
        /\ session = set_profile_session(done)
        /\ digest_subs = {WaId}
        /\ subscribe_called = TRUE
        /\ completed = TRUE
        /\ pc = "idle"
        /\ question = <<>>
        /\ stored = EmptyDict
        /\ profile = EmptyDict
        /\ reply = NoReply
        /\ intent = <<>>
        /\ wa_id = ""
        /\ branch = ""
        /\ llm_answer = NotAsked
        /\ ran = <<>>
        /\ enqueued = <<>>
        /\ call = NoCall
        /\ recent = NoRecent
        /\ delivery = [d \in Deliveries |-> [at |-> "none", id |-> "", added |-> 0, profile |-> EmptyDict]]
        /\ epoch = 0
        /\ zset = {}
        /\ redis_keys = {}
        /\ outbox = <<>>
        /\ job \in {[NoJob EXCEPT !.dedupe = dedupe] : dedupe \in BOOLEAN}
        /\ enqueue_calls = <<>>
        /\ request = NoRequest

\* A turn of the user ends with another location committed: set_profile
\* stores the profile with the city, the country and the zone of the place.
Relocates ==
    /\ \E place \in DigestPlaces :
         LET old == get_profile(users, session)
             new == Put(Put(Put(old, "city", place.city), "country", place.country),
                        "tz", place.tz)
         IN  /\ new # old
             /\ users' = set_profile_row(users, new)
             /\ session' = set_profile_session(new)
    /\ UNCHANGED << digest_subs, subscribe_called, completed, pc, question, stored,
                    profile, reply, intent, wa_id, branch, llm_answer, ran,
                    enqueued, call, recent, delivery, job_vars >>

\* The tick goes on with the next subscriber, or ends.
NextSubscriber ==
    IF Tail(job.items) = <<>>
    THEN [NoJob EXCEPT !.dedupe = job.dedupe, !.now = job.now]
    ELSE [job EXCEPT !.at = "subscriber", !.items = Tail(job.items), !.sub = NoJob.sub]

\* A check that lets the digest go out two minutes from the target too.
digest_is_due_within_two(now, hour, minute) ==
    LET current_minutes == now.hour * 60 + now.minute
        target_minutes == hour * 60 + minute
        delta_minutes == IF current_minutes >= target_minutes
                         THEN current_minutes - target_minutes
                         ELSE target_minutes - current_minutes
    IN  ~(delta_minutes > 2)
\* Whether the local time now is within a minute of hour:minute (lines
\* 181-185).
digest_is_due(now, hour, minute) ==
    LET current_minutes == now.hour * 60 + now.minute
        target_minutes == hour * 60 + minute
        delta_minutes == IF current_minutes >= target_minutes
                         THEN current_minutes - target_minutes
                         ELSE target_minutes - current_minutes
    IN  ~(delta_minutes > 1)

\* The digests that are followed when DIGEST_DEDUPE lets every tick send.
MaxDigests == 2

\* smembers: the members of a set, in some order.
RECURSIVE smembers(_)
smembers(set) ==
    IF set = {} THEN <<>>
    ELSE LET m == CHOOSE x \in set : TRUE IN <<m>> \o smembers(set \ {m})

\* run_digest_tick, lines 154-163: the subscribers; the tick returns when
\* there are none.  The job runs once a minute, so that a tick starts
\* later than the one before it.
DigestTickStart ==
    /\ job.at = "idle"
    /\ epoch > job.now
    /\ job.dedupe \/ Len(outbox) < MaxDigests
    /\ LET wa_ids == smembers(digest_subs)
       IN  job' = IF wa_ids = <<>> THEN [job EXCEPT !.now = epoch]
                  ELSE [job EXCEPT !.at = "subscriber", !.items = wa_ids,
                                   !.now = epoch]
    /\ UNCHANGED << turn_vars, recent, delivery, epoch, zset, redis_keys, outbox,
                    enqueue_calls, request >>

\* run_digest_tick, lines 165-196, for the next subscriber: the profile,
\* the local time in its zone, the time check and the key of the day.
\* Redis answers the commands of the tick.
DigestTickSubscriber ==
    /\ job.at = "subscriber"
    /\ LET to == Head(job.items)
           prof == get_profile(users, session)
           city == Strip(TextOf(prof, "city"))
           country == Strip(TextOf(prof, "country"))
           tz_name == IF Has(prof, "tz") THEN prof["tz"] ELSE ""
           now == now_local(epoch, tz_name)
           sent_key == <<"digest:sent", to, now.date>>
       IN  job' = IF city = <<>> \/ country = <<>> \/ tz_name = "" THEN NextSubscriber
                  ELSE IF tz_name \notin ZoneNames THEN NextSubscriber
                  ELSE IF ~digest_is_due(now, DIGEST_HOUR, DIGEST_MINUTE)
                  THEN NextSubscriber
                  ELSE IF job.dedupe /\ redis_get(redis_keys, sent_key, epoch)
                  THEN NextSubscriber
                  ELSE [job EXCEPT !.at = "send",
                                   !.sub = [now |-> epoch, tz |-> tz_name,
                                            key |-> sent_key]]
    /\ UNCHANGED << turn_vars, recent, delivery, epoch, zset, redis_keys, outbox,
                    enqueue_calls, request >>

\* run_digest_tick, lines 198-202: the message is built from what the API
\* answers and sent; an exception of either ends the subscriber's turn.
DigestTickSend ==
    /\ job.at = "send"
    /\ \E api \in AladhanOutcomes, outcome \in SendOutcomes :
         IF api.raises \/ outcome = "raises"
         THEN /\ job' = NextSubscriber
              /\ UNCHANGED outbox
         ELSE /\ outbox' = Append(outbox, [kind |-> "digest", to |-> Head(job.items),
                                           of |-> [now |-> job.sub.now, tz |-> job.sub.tz],
                                           at |-> epoch, outcome |-> outcome])
              /\ job' = IF job.dedupe THEN [job EXCEPT !.at = "set"]
                        ELSE NextSubscriber
    /\ UNCHANGED << turn_vars, recent, delivery, epoch, zset, redis_keys,
                    enqueue_calls, request >>

\* run_digest_tick, lines 205-206: the key of the day is set for 36 hours.
DigestTickSet ==
    /\ job.at = "set"
    /\ redis_keys' = redis_set(redis_keys, job.sub.key, 36 * 3600, epoch)
    /\ job' = NextSubscriber
    /\ UNCHANGED << turn_vars, recent, delivery, epoch, zset, outbox,
                    enqueue_calls, request >>

DigestNext ==
    \/ TimePasses(DigestInstants)
    \/ Relocates
    \/ DigestTickStart
    \/ DigestTickSubscriber
    \/ DigestTickSend
    \/ DigestTickSet

DigestSpec == DigestInit /\ [][DigestNext]_vars

(***************************************************************************)
(* Scheduled jobs: the reminders ten minutes before a prayer               *)
(***************************************************************************)
\* The seconds at which something happens: on each day after day 0, the
\* seconds around ten minutes before Fajr and before Dhuhr in the zone of
\* Lahore.
PrayerInstants ==
    { (day + 1) * SecondsPerDay + (Timetable[prayer] - 10) * 60 + s
          - ZoneOffset("Asia/Karachi") * 60 :
        day \in 0..MaxDay, prayer \in {"Fajr", "Dhuhr"}, s \in {-61, -60, 0, 1} }

\* A check that takes the minute after the reminder's time as well.
reminder_is_due_a_minute_late(now, prayer_minutes) ==
    LET prayer_dt == now.date * SecondsPerDay + prayer_minutes * 60
        reminder_dt == prayer_dt - 10 * 60
        time_diff == IF now.seconds >= reminder_dt THEN now.seconds - reminder_dt
                     ELSE reminder_dt - now.seconds
    IN  /\ ~(prayer_dt < now.seconds)
        /\ ~(time_diff > 60)

\* Lines 302-320: the prayer is today at prayer_minutes after midnight; it
\* has not passed, the time ten minutes before it has not passed, and that
\* time is at most 60 seconds away.
reminder_is_due(now, prayer_minutes) ==
    LET prayer_dt == now.date * SecondsPerDay + prayer_minutes * 60
        reminder_dt == prayer_dt - 10 * 60
        time_diff == IF now.seconds >= reminder_dt THEN now.seconds - reminder_dt
                     ELSE reminder_dt - now.seconds
    IN  /\ ~(prayer_dt < now.seconds)
        /\ ~(reminder_dt < now.seconds)
        /\ ~(time_diff > 60)

\* run_prayer_reminder_tick, lines 253-261: the subscribers; the tick
\* returns when there are none.
PrayerTickStart ==
    /\ job.at = "idle"
    /\ epoch > job.now
    /\ LET wa_ids == smembers(digest_subs)
       IN  job' = IF wa_ids = <<>> THEN [job EXCEPT !.now = epoch]
                  ELSE [job EXCEPT !.at = "subscriber", !.items = wa_ids,
                                   !.now = epoch]
    /\ UNCHANGED << turn_vars, recent, delivery, epoch, zset, redis_keys, outbox,
                    enqueue_calls, request >>

\* run_prayer_reminder_tick, lines 263-320, for the next subscriber: the
\* profile, the local time in its zone, today's timings, and the prayers of
\* PRAYER_ORDER that are in the timings and whose reminder is due.
PrayerTickSubscriber ==
    /\ job.at = "subscriber"
    /\ \E api \in AladhanOutcomes :
         LET prof == get_profile(users, session)
             city == Strip(TextOf(prof, "city"))
             country == Strip(TextOf(prof, "country"))
             tz_name == IF Has(prof, "tz") THEN prof["tz"] ELSE ""
             now == now_local(epoch, tz_name)
             due == SelectSeq(PRAYER_ORDER, LAMBDA p : p \in api.timings
                                 /\ reminder_is_due(now, Timetable[p]))
         IN  job' = IF city = <<>> \/ country = <<>> \/ tz_name = "" THEN NextSubscriber
                    ELSE IF tz_name \notin ZoneNames THEN NextSubscriber
                    ELSE IF api.raises \/ due = <<>> THEN NextSubscriber
                    ELSE [job EXCEPT !.at = "remind",
                                     !.sub = [now |-> epoch, tz |-> tz_name,
                                              key |-> due]]
    /\ UNCHANGED << turn_vars, recent, delivery, epoch, zset, redis_keys, outbox,
                    enqueue_calls, request >>

\* run_prayer_reminder_tick, lines 322-346, for the next prayer that is
\* due: nothing is sent when the key of the user, the prayer and the date
\* is set; else the reminder is sent and the key is set for 24 hours, or
\* the send raises and the key is not set.  Redis answers the commands.
PrayerTickRemind ==
    /\ job.at = "remind"
    /\ LET to == Head(job.items)
           prayer_name == Head(job.sub.key)
           now == now_local(job.sub.now, job.sub.tz)
           reminder_key == <<"prayer_reminder", to, prayer_name, now.date>>
           after == IF Tail(job.sub.key) = <<>> THEN NextSubscriber
                    ELSE [job EXCEPT !.sub.key = Tail(job.sub.key)]
       IN  /\ job' = after
           /\ IF redis_get(redis_keys, reminder_key, epoch)
              THEN UNCHANGED << outbox, redis_keys >>
              ELSE \E outcome \in SendOutcomes :
                     IF outcome = "raises"
                     THEN UNCHANGED << outbox, redis_keys >>
                     ELSE /\ outbox' = Append(outbox,
                                 [kind |-> "prayer", to |-> to,
                                  of |-> [now |-> job.sub.now, tz |-> job.sub.tz,
                                          prayer |-> prayer_name],
                                  at |-> epoch, outcome |-> outcome])
                          /\ redis_keys' = redis_set(redis_keys, reminder_key,
                                                     24 * 3600, epoch)
    /\ UNCHANGED << turn_vars, recent, delivery, epoch, zset, enqueue_calls,
                    request >>

PrayerNext ==
    \/ TimePasses(PrayerInstants)
    \/ PrayerTickStart
    \/ PrayerTickSubscriber
    \/ PrayerTickRemind

\* The subscriber of the digest; DIGEST_DEDUPE is not read by this job.
PrayerInit == DigestInit /\ job.dedupe

PrayerSpec == PrayerInit /\ [][PrayerNext]_vars

(***************************************************************************)
(* The webhook: the messages of one POST                                   *)
(***************************************************************************)
\* The messages a POST may hold: a text of the user, a message without a
\* sender and a message without a text.
Messages ==
    { [from |-> WaId, body |-> <<"H", "i", " ", "p", "k">>],
      [from |-> "", body |-> <<"H", "i", " ", "p", "k">>],
      [from |-> WaId, body |-> <<>>] }

\* The messages of one POST that are followed.
MaxMessages == 2

\* A POST arrives, lines 450-452: a body that is no JSON raises and is
\* answered at once; else the loop over the messages starts.
Post ==
    /\ request.at = "none"
    /\ pc = "idle"
    /\ \/ request' = [NoRequest EXCEPT !.at = "answered", !.status = "ok"]
       \/ \E n \in 1..MaxMessages : \E messages \in [1..n -> Messages] :
             request' = [NoRequest EXCEPT !.at = "loop", !.messages = messages,
                                          !.next = 1]
    /\ UNCHANGED << turn_vars, recent, delivery, epoch, zset, redis_keys, outbox,
                    job, enqueue_calls >>

\* The loop of lines 455-476 takes the next message: one without a sender
\* or without a text is passed over, for another one handle_turn is called.
\* The identifiers of the messages are new ones.
TakeMessage ==
    /\ request.at = "loop"
    /\ request.next <= Len(request.messages)
    /\ LET msg == request.messages[request.next]
           reached == [request EXCEPT !.reached = @ \cup {request.next}]
       IN  request' = IF msg.from = "" \/ Strip(msg.body) = <<>>
                      THEN [reached EXCEPT !.next = @ + 1]
                      ELSE [reached EXCEPT !.at = "turn"]
    /\ UNCHANGED << turn_vars, recent, delivery, epoch, zset, redis_keys, outbox,
                    job, enqueue_calls >>

\* Lines 478-493: the turn of the message that was taken.
MessageTurn ==
    /\ request.at = "turn"
    /\ Turn({request.messages[request.next].body},
            {request.messages[request.next].from})

\* Line 566: the loops are over and the POST is answered.
AnswerPost ==
    /\ request.at = "loop"
    /\ request.next > Len(request.messages)
    /\ request' = [request EXCEPT !.at = "answered", !.status = "ok"]
    /\ UNCHANGED << turn_vars, recent, delivery, epoch, zset, redis_keys, outbox,
                    job, enqueue_calls >>

PayloadNext ==
    \/ Post
    \/ TakeMessage
    \/ MessageTurn
    \/ EnsureProfile
    \/ SlotClassify
    \/ IslamicDate
    \/ PrayerTimes
    \/ NextPrayer
    \/ SchedulerAgent
    \/ Calendar
    \/ General
    \/ Reply
    \/ Abort
    \/ AnswerPost

PayloadSpec == DispatchInit /\ [][PayloadNext]_vars

(***************************************************************************)
(* Properties                                                              *)
(***************************************************************************)
\* C1: handle_turn gives a reply for every turn and no exception ever
\* leaves it: a turn never ends raised, and a turn that ends holds a reply.
C1_AlwaysReplies ==
    /\ pc # "raised"
    /\ pc = "done" => reply # NoReply

\* C2: a turn whose incoming profile lacks one of name, email, city and
\* country never reaches the classifier or an intent handler, and ends in
\* the onboarding sink with an onboarding prompt.
C2_IncompleteStaysInOnboarding ==
    ~_profile_complete(stored) /\ pc \notin {"idle", "ensure_profile"}
        => /\ pc \in {"noop", "done"}
           /\ ran = <<>>
           /\ pc = "done" => reply # NoReply

\* C3: whenever the classifier or an intent handler runs, the four required
\* fields are non-empty, no awaiting marker is set and no location
\* confirmation is pending.
C3_HandlersSeeCompleteProfile ==
    pc \in {"classify"} \cup HandlerNodes
        => /\ \A f \in {"name", "email", "city", "country"} :
                 Has(profile, f) /\ profile[f] # <<>>
           /\ ~Has(profile, "_await")
           /\ ~Has(profile, "_confirm_loc")

C3_Witness ==
    /\ pc \in HandlerNodes
    /\ llm_answer.asked

\* C4: when the LLM's text carries a label outside the set or is not a JSON
\* object (a JSON value that is no object, or an object whose slots are no
\* map, included), the classifier does not raise and gives the intent
\* general with every slot null.
C4_UnusableAnswerIsGeneral ==
    LET data == _safe_json_extract(llm_answer.content)
        unusable ==
            \/ data.t # "dict"
            \/ /\ Has(data.d, "slots")
               /\ Truthy(data.d["slots"])
               /\ data.d["slots"].t # "dict"
            \/ /\ Has(data.d, "intent")
               /\ \A i \in 1..Len(INTENT_LABELS) :
                     INTENT_LABELS[i] # Lower(PyStr(data.d["intent"]))
    IN  llm_answer.asked /\ ~llm_answer.raises /\ unusable /\ ran = <<>>
            => /\ pc = "general"
               /\ intent = L_general
               /\ \A k \in {"_override_city", "_requested_prayer", "_requested_date",
                            "_reminder_text", "_reminder_time"} : ~Has(profile, k)

\* C5: after classify the intent is one of the ten labels and exactly one
\* handler runs, the one the intent names: reminder runs scheduler_agent
\* and an LLM label outside the set runs general.
C5_OneHandlerPerIntent ==
    /\ pc # "no_edge"
    /\ Len(ran) <= 1
    /\ intent # <<>>
        => /\ \E i \in 1..Len(INTENT_LABELS) : INTENT_LABELS[i] = intent
           /\ \/ pc = route(intent) /\ ran = <<>>
              \/ pc \in {"done", "raised"} /\ ran = << route(intent) >>
           /\ intent = L_reminder => route(intent) = "scheduler_agent"
    /\ ran # <<>> => intent # <<>>
    /\ LET data == _safe_json_extract(llm_answer.content)
       IN  /\ llm_answer.asked /\ intent # <<>>
           /\ data.t = "dict" /\ Has(data.d, "intent")
           /\ \A i \in 1..Len(INTENT_LABELS) :
                 INTENT_LABELS[i] # Lower(PyStr(data.d["intent"]))
           => /\ intent = L_general
              /\ ran \in { <<>>, << "general" >> }

C5_Witness ==
    /\ pc = "done"
    /\ intent = L_reminder
    /\ ran = << "scheduler_agent" >>

\* C6: a failure of the classifier's LLM call is caught at the call: the
\* turn is classified general and the general handler's reply is returned.
C6_LlmFailureIsGeneral ==
    llm_answer.asked /\ llm_answer.raises
        => /\ pc \in {"general", "done"}
           /\ intent = L_general
           /\ pc = "done" => ran = << "general" >> /\ reply # NoReply

\* C7: the transition into COMPLETE and its call of subscribe_to_digest
\* happen once per user: no turn completes the setup and calls
\* subscribe_to_digest for a user for whom it was called before.
C7_SetupCompletesOnce ==
    [][pc = "ensure_profile" /\ pc' # "ensure_profile"
         /\ branch' \in {"confirm_yes", "final_complete",
                         "name_stored:final_complete", "email_stored:final_complete"}
       => ~subscribe_called]_vars

\* C8: a negative reply in CONFIRM_LOCATION removes the staged location and
\* the confirmation flag, sets the awaiting marker to location and leaves
\* city, country and tz as they were; the profile stored at the end of the
\* turn makes the next turn an AWAIT_LOCATION turn.
C8_NoRestartsLocation ==
    /\ [](branch = "confirm_no"
            => /\ pc \in {"noop", "done"}
               /\ ~Has(profile, "_staged_loc")
               /\ ~Has(profile, "_confirm_loc")
               /\ Has(profile, "_await") /\ profile["_await"] = "location"
               /\ \A f \in {"city", "country", "tz"} :
                     /\ Has(profile, f) <=> Has(stored, f)
                     /\ Has(profile, f) => profile[f] = stored[f])
    /\ [][branch = "confirm_no" /\ pc = "done" /\ pc' = "idle"
            => LET next == get_profile(users', session')
               IN  /\ Has(next, "_await") /\ next["_await"] = "location"
                   /\ ~Has(next, "_confirm_loc")
                   /\ ~Has(next, "_staged_loc")
                   /\ \A api \in AladhanOutcomes, body \in Bodies :
                         ensure_profile(next, Strip(body), WaId, api).branch
                             \in {"loc_format", "loc_invalid", "loc_staged"}]_vars

C8_Witness ==
    /\ branch = "confirm_no"
    /\ pc = "done"
    /\ Has(stored, "_staged_loc")

C10_AsksFirstMissingField ==
    /\ pc \in {"noop", "done"}
    /\ ~Has(stored, "_await")
    /\ ~Has(stored, "_confirm_loc")
    /\ ~_profile_complete(stored)
    => LET field == IF TextOf(stored, "name") = <<>> THEN "name"
                    ELSE IF TextOf(stored, "email") = <<>> THEN "email"
                    ELSE "location"
       IN  /\ Has(profile, "_await") /\ profile["_await"] = field
           /\ reply = [kind |-> "ask_" \o field]
           /\ Pop(Pop(profile, "_await"), "lang") = Pop(stored, "lang")

C10_Witness ==
    /\ pc = "done"
    /\ ~Has(stored, "_await")
    /\ ~Has(stored, "_confirm_loc")
    /\ TextOf(stored, "name") # <<>>
    /\ TextOf(stored, "email") = <<>>
    /\ reply = [kind |-> "ask_email"]

\* C11: once a stored profile of the user has held the four required fields
\* and the setup-done flag, every later turn leaves ensure_profile by its
\* pass-through branch with the profile unchanged and goes on to the
\* classifier: it is asked nothing again and keeps its required fields.
C11_CompleteIsTerminal ==
    completed /\ pc \notin {"idle", "ensure_profile"}
        => /\ branch = "complete"
           /\ pc # "noop"
           /\ _profile_complete(profile)

\* C12: scheduler_agent never raises, whatever the slots and the extraction
\* call give, a time of day with an hour above 23 or a minute above 59
\* included: a turn that ran it ends with a reply for the user.
C12_SchedulerNeverRaises ==
    ran = <<"scheduler_agent">> => pc = "done" /\ reply # NoReply

C14_DueNotBeforeNow ==
    ran = <<"scheduler_agent">> =>
        LET t == reminder_request(call.entered, call.ext).time
            half_past_two == 14 * 60 + 30
        IN  /\ Len(enqueued) <= 1
            /\ \A i \in 1..Len(enqueued) :
                 /\ enqueued[i].due >= call.now
                 /\ t.t = "str"
                 /\ t.s = <<"i", "n", " ", "9", "0", " ", "m", "i", "n", "u", "t", "e", "s">>
                        => enqueued[i].due = call.now + 90
                 /\ t.s = <<"I", "n", " ", "2", " ", "H", "o", "u", "r", "s">>
                        => enqueued[i].due = call.now + 2 * 60
                 /\ t.s = <<"1", "4", ":", "3", "0">>
                        => enqueued[i].due = IF half_past_two > call.now
                                             THEN half_past_two
                                             ELSE half_past_two + MinutesPerDay

\* A reminder for 14:30 asked at 14:30 is in the queue for the next day.
C14_Witness ==
    /\ ran = <<"scheduler_agent">>
    /\ call.now = 14 * 60 + 30
    /\ Len(enqueued) = 1
    /\ enqueued[1].due = 14 * 60 + 30 + MinutesPerDay
    /\ reply.kind = "reminder_set"

\* C15: next_prayer reports the first prayer in the order Fajr, Dhuhr, Asr,
\* Maghrib, Isha whose time is after the time of day at the place the
\* timings are for, tomorrow's Fajr when there is none; the time it reports
\* is after now, and the time left is h hours and m minutes, 0 <= m < 60.
C15_NextPrayerIsFirstAfterNow ==
    ran = <<"next_prayer">> /\ pc = "done" =>
        LET later == {i \in 1..Len(PRAYER_ORDER) : Timetable[PRAYER_ORDER[i]] > call.now}
            first == CHOOSE i \in later : \A j \in later : i <= j
            due == IF later = {} THEN Timetable["Fajr"] + MinutesPerDay
                   ELSE Timetable[PRAYER_ORDER[first]]
        IN  /\ reply.prayer = IF later = {} THEN "Fajr" ELSE PRAYER_ORDER[first]
            /\ reply.at = due % MinutesPerDay
            /\ reply.minutes \in 0..59
            /\ reply.hours >= 0
            /\ reply.hours * 60 + reply.minutes = due - call.now

\* C16: when prayer_times returns, the date it asked the API for is none
\* (today) for no requested date, for "today" and for a text that is no
\* date; the day after today in the zone of the location for "tomorrow";
\* and the day of an ISO date written day-month-year.  The reply gives the
\* requested prayer alone when it is one of the five canonical names, and
\* otherwise the five prayers in the order Fajr, Dhuhr, Asr, Maghrib, Isha.
C16_DateAndPrayerResolution ==
    ran = <<"prayer_times">> /\ pc = "done" =>
        LET d == DictGet(call.entered, "_requested_date")
            p == DictGet(call.entered, "_requested_prayer")
            city == get_effective_location(call.entered).city
            today == [kind |-> "none"]
            canonical == p.t = "str" /\ p.s \in { <<"F", "a", "j", "r">>, <<"D", "h", "u", "h", "r">>,
                                               <<"A", "s", "r">>,
                                               <<"M", "a", "g", "h", "r", "i", "b">>,
                                               <<"I", "s", "h", "a">> }
        IN  /\ ~Has(call.entered, "_requested_date") => reply.date = today
            /\ d = JStr(<<" ", "T", "o", "d", "a", "y", " ">>) => reply.date = today
            /\ d = JStr(<<"2", "0", "2", "5", "-", "0", "2", "-", "3", "0">>)
                   => reply.date = today
            /\ d = JStr(<<"t", "o", "m", "o", "r", "r", "o", "w">>)
                   => /\ reply.date.kind = "tomorrow"
                      /\ reply.date.zone \in {PlaceZone(city), "UTC"}
            /\ d = JStr(<<"2", "0", "2", "5", "-", "3", "-", "9">>)
                   => reply.date = [kind |-> "date",
                                    text |-> <<"0", "9", "-", "0", "3", "-", "2", "0", "2", "5">>]
            /\ canonical => reply.kind = "prayer_time" /\ reply.prayer = p.s
            /\ ~canonical => /\ reply.kind = "prayer_times"
                             /\ reply.order = <<"Fajr", "Dhuhr", "Asr", "Maghrib", "Isha">>

\* The time of Isha was asked for the ISO date 2025-3-9.
C16_Witness ==
    /\ ran = <<"prayer_times">>
    /\ pc = "done"
    /\ DictGet(call.entered, "_requested_date") = JStr(<<"2", "0", "2", "5", "-", "3", "-", "9">>)
    /\ reply.kind = "prayer_time"
    /\ reply.prayer = <<"I", "s", "h", "a">>
    /\ reply.date.kind = "date"

\* C17: the override country a handler is called with depends on the text of
\* the turn alone: it is there exactly when the text names a country or an
\* alias as a whole word, whatever the LLM answers.  "Today?" and "Omani"
\* name no country, "Qatar?" names Qatar and "Hi pk" Pakistan.
C17_OverrideCountryFromTextOnly ==
    pc \in HandlerNodes /\ ran = <<>> =>
        LET named ==
                CASE question = <<"Q", "a", "t", "a", "r", "?">>
                        -> JStr(<<"Q", "a", "t", "a", "r">>)
                  [] question = <<"H", "i", " ", "p", "k">>
                        -> JStr(<<"P", "a", "k", "i", "s", "t", "a", "n">>)
                  [] OTHER -> JNull
        IN  DictGet(profile, "_override_country") = named

\* C18: a turn that ran a calendar handler ends with a reply in the
\* language of the turn, also when the calendar tool fails: no exception
\* leaves the handler, and the reply is not the text of the tool's error.
C18_CalendarFailureIsLocalisedReply ==
    ran # <<>> /\ ran[1] \in { "calendar_connect", "calendar_create_event",
                               "calendar_view_events", "calendar_find_events",
                               "calendar_delete_event" }
        => /\ pc = "done"
           /\ reply.kind # "tool_error_text"
           /\ reply.lang = _lang(profile)

\* C19: a message with an identifier is handled by handle_turn at most once
\* for the user, also when deliveries of it run at the same time.
C19_HandledAtMostOnce ==
    \A id \in MessageIds \ {""} :
        Cardinality({d \in Deliveries : /\ delivery[d].id = id
                                        /\ delivery[d].at \in {"handle_turn", "handled"}}) <= 1

\* C20: when set_profile has written the profile of a turn, get_profile
\* reads back the name, email, city, country, zone and language that were
\* written, in the session of the write and in a later session, after the
\* session key has expired; in the later session it reads none of the
\* transient flags that were written.
C20_RoundTrip ==
    [][pc = "done" /\ pc' = "idle" =>
        LET durable == {"name", "email", "city", "country", "tz", "lang"}
            same_session == get_profile(users', session')
            later_session == get_profile(users', NoSession)
            Same(read) ==
                \A k \in durable :
                    IF Has(profile, k) THEN Has(read, k) /\ read[k] = profile[k]
                    ELSE Has(read, k) => read[k] = (IF k = "tz" THEN "" ELSE <<>>)
        IN  /\ Same(same_session)
            /\ Same(later_session)
            /\ DOMAIN later_session \subseteq durable]_vars

\* The profile of a user who finished the setup is read in a later session:
\* it has its zone, and not the setup-done flag of the session before.
C20_Witness ==
    /\ pc = "idle"
    /\ completed
    /\ ~session.exists
    /\ Has(get_profile(users, session), "tz")
    /\ get_profile(users, session)["tz"] # ""
    /\ ~Has(get_profile(users, session), "_setup_done")

\* C21: the location probe accepts a place only when the response of the
\* API holds all five prayer times and a timezone that is not empty; when
\* the call of the API raises, the probe gives (False, None) and nothing is
\* raised out of the turn; and the probe changes nothing in the profile:
\* a rejected line leaves the profile as it was, and an accepted one leaves
\* every field but the staged location and the two markers as it was.
C21_ProbeAcceptsOnlyFullResponse ==
    [][pc = "ensure_profile" /\ branch' \in {"loc_invalid", "loc_staged"} =>
        LET api == call'.api
        IN  /\ branch' = "loc_staged" =>
                    /\ ~api.raises
                    /\ PrayerKeys \subseteq api.timings
                    /\ api.timezone # ""
            /\ api.raises =>
                    /\ branch' = "loc_invalid"
                    /\ pc' # "raised"
                    /\ ~Has(profile', "_staged_loc")
            /\ branch' = "loc_invalid" => profile' = profile
            /\ \A k \in (DOMAIN profile \cup DOMAIN profile')
                          \ {"_staged_loc", "_confirm_loc", "_await"} :
                    Has(profile, k) /\ Has(profile', k) /\ profile'[k] = profile[k]]_vars

\* The API raised while a location line was probed: the line was rejected,
\* and the turn goes on to its end with the location still awaited.
C21_Witness ==
    /\ branch = "loc_invalid"
    /\ call.api.raises
    /\ pc = "noop"
    /\ Has(profile, "_await")
    /\ profile["_await"] = "location"

\* C22: parse_city_country gives (None, None) for a line without "-" and
\* for a line with a side of the first "-" that is shorter than two
\* characters when stripped; else it gives the title-cased city, with None
\* for a country that cannot be normalized and with the canonical name of
\* the country otherwise; and ensure_profile asks for the format again
\* exactly when one of the two is None, and stages the two otherwise.
C22_ParseCityCountry ==
    branch \in {"loc_format", "loc_invalid", "loc_staged"} =>
        LET line == question
            r == parse_city_country(line)
            none == [city |-> <<>>, country |-> <<>>]
            dashes == {i \in 1..Len(line) : line[i] = "-"}
            d == CHOOSE i \in dashes : \A j \in dashes : i <= j
            left == Strip(SubSeq(line, 1, d - 1))
            right == Strip(SubSeq(line, d + 1, Len(line)))
            canonical == {countries[i].name : i \in 1..Len(countries)}
                             \cup {aliases[i][2] : i \in 1..Len(aliases)}
        IN  /\ dashes = {} => r = none
            /\ dashes # {} /\ (Len(left) < 2 \/ Len(right) < 2) => r = none
            /\ dashes # {} /\ Len(left) >= 2 /\ Len(right) >= 2 =>
                    /\ r.city = Title(left)
                    /\ r.city # <<>>
                    /\ IsUpper(r.city[1])
                    /\ r.country \in canonical \cup {<<>>}
                    /\ r.country = normalize_country_name(right)
            /\ line = <<"l", "a", "h", "o", "r", "e", " ", "-", " ", "p", "a", "k", "i", "s", "t", "a", "n">> => r = [city |-> <<"L", "a", "h", "o", "r", "e">>, country |-> <<"P", "a", "k", "i", "s", "t", "a", "n">>]
            /\ line = <<"n", "e", "w", " ", "y", "o", "r", "k", "-", "P", "a", "k">> => r = [city |-> <<"N", "e", "w", " ", "Y", "o", "r", "k">>, country |-> <<"P", "a", "k", "i", "s", "t", "a", "n">>]
            /\ line = <<"l", "a", "h", "o", "r", "e", "p", "a", "k", "i", "s", "t", "a", "n">> => r = none
            /\ line = <<"L", " ", "-", " ", "Z">> => r = none
            /\ line = <<"n", "e", "w", " ", "y", "o", "r", "k", " ", "-", " ", "Z", "z">> => r = [city |-> <<"N", "e", "w", " ", "Y", "o", "r", "k">>, country |-> <<>>]
            /\ line = <<"l", "a", "h", "o", "r", "e", " ", "-", " ", "p", "k">> => r = [city |-> <<"L", "a", "h", "o", "r", "e">>, country |-> <<>>]
            /\ line = <<"a", "l", "-", "a", "i", "n", " ", "-", " ", "P", "K">> => r = [city |-> <<"A", "l">>, country |-> <<>>]
            /\ branch = "loc_format" <=> (r.city = <<>> \/ r.country = <<>>)
            /\ branch = "loc_staged" =>
                    /\ profile["_staged_loc"].city = r.city
                    /\ profile["_staged_loc"].country = r.country

\* A line with a city of two words and a country that no name matches was
\* sent: the city is title-cased, the country is None, and the format is
\* asked for again.
C22_Witness ==
    /\ pc = "noop"
    /\ branch = "loc_format"
    /\ question = <<"n", "e", "w", " ", "y", "o", "r", "k", " ", "-", " ", "Z", "z">>
    /\ parse_city_country(question) = [city |-> <<"N", "e", "w", " ", "Y", "o", "r", "k">>, country |-> <<>>]

\* C23: a language that whatsapp_inbound passed in the profile is the
\* language of the profile that the graph works on, and so of the reply.
C23_PassedLangIsKept ==
    pc # "idle" => Has(profile, "lang") /\ profile["lang"] = call.lang

\* C24: when a handler starts, every transient override in the profile
\* (override city and country, requested prayer and date, reminder text
\* and time) was set by the classifier in this turn, from the slots the
\* LLM gave for this turn's question and from the country this turn's
\* question names; none is left from an earlier turn.
C24_TransientsAreOfThisTurn ==
    pc \in HandlerNodes /\ ran = <<>> =>
        LET fresh == IF llm_answer.asked /\ ~llm_answer.raises
                     THEN with_overrides(EmptyDict, llm_intent_json(llm_answer).slots,
                                         find_country_in_text(question))
                     ELSE EmptyDict
        IN  \A k \in {"_override_city", "_override_country", "_requested_prayer",
                       "_requested_date", "_reminder_text", "_reminder_time"} :
                Has(profile, k) => Has(fresh, k) /\ profile[k] = fresh[k]

\* C25: the turn in which the user affirms the staged location ends with
\* the setup-complete message that names the committed city and country,
\* and no intent handler runs in that turn.
C25_AffirmingTurnRepliesSetupComplete ==
    branch = "confirm_yes" =>
        /\ ran = <<>>
        /\ pc \notin HandlerNodes \cup {"raised"}
        /\ pc = "done" => reply = SetupCompleteReply(profile)

\* C26: the profile an intent handler returns holds no override city, no
\* override country, no requested prayer and no requested date.
C26_HandlersClearOverrides ==
    pc = "done" /\ ran # <<>> =>
        \A k \in {"_override_city", "_override_country", "_requested_prayer",
                   "_requested_date"} : ~Has(profile, k)

\* C27: the classifier and the intent handlers leave name, email, city,
\* country and timezone of the profile as they are, whatever the slots of
\* the LLM hold; and ensure_profile changes city, country or timezone only
\* in the turn in which the user affirms the staged location.
C27_DurableFieldsChangeOnlyOnConfirmation ==
    [][LET Same(k) == /\ Has(profile', k) <=> Has(profile, k)
                      /\ Has(profile, k) => profile'[k] = profile[k]
       IN  /\ pc = "classify" \/ pc \in HandlerNodes =>
                   \A k \in {"name", "email", "city", "country", "tz"} : Same(k)
           /\ pc = "ensure_profile" /\ branch' # "confirm_yes" =>
                   \A k \in {"city", "country", "tz"} : Same(k)]_vars

\* A handler has returned in a turn whose text names a country: the
\* profile holds the override country and the city and country of the
\* confirmation.
C27_Witness ==
    /\ pc = "done"
    /\ ran # <<>>
    /\ Has(profile, "_override_country")
    /\ TextOf(profile, "city") = <<"L", "a", "h", "o", "r", "e">>
    /\ TextOf(profile, "country") = <<"P", "a", "k", "i", "s", "t", "a", "n">>
    /\ TextOf(profile, "name") # <<>>

\* C28: while the location is awaited, a line that parses to a city and a
\* country and that the API validates stages the city, the country and the
\* timezone of the API, sets the confirmation flag, removes the awaiting
\* marker and asks for yes or no, and leaves the city and the country of
\* the profile as they were; and in every profile, of the turn or of the
\* session, that holds the confirmation flag, the staged city, country and
\* timezone are not empty and there is no awaiting marker.
C28_StagedLocationIsWhole ==
    /\ [](\A p \in {profile} \cup (IF session.exists THEN {session.profile} ELSE {}) :
            Has(p, "_confirm_loc") =>
                /\ Has(p, "_staged_loc")
                /\ p["_staged_loc"].city # <<>>
                /\ p["_staged_loc"].country # <<>>
                /\ p["_staged_loc"].tz # ""
                /\ ~Has(p, "_await"))
    /\ [][/\ pc = "ensure_profile"
           /\ ~IsComplete(profile)
           /\ ~Has(profile, "_confirm_loc")
           /\ Has(profile, "_await")
           /\ profile["_await"] = "location"
           /\ parse_city_country(question).city # <<>>
           /\ parse_city_country(question).country # <<>>
           => /\ branch' \in {"loc_invalid", "loc_staged"}
              /\ ( /\ ~call'.api.raises
                   /\ PrayerKeys \subseteq call'.api.timings
                   /\ call'.api.timezone # "" )
                 => /\ branch' = "loc_staged"
                    /\ Has(profile', "_staged_loc")
                    /\ profile'["_staged_loc"] =
                           [city |-> parse_city_country(question).city,
                            country |-> parse_city_country(question).country,
                            tz |-> call'.api.timezone]
                    /\ Has(profile', "_confirm_loc")
                    /\ ~Has(profile', "_await")
                    /\ reply'.kind = "confirm_location"
                    /\ pc' = "noop"
                    /\ \A k \in {"city", "country"} : ~Has(profile, k) => ~Has(profile', k)
                    /\ \A k \in {"city", "country"} :
                           Has(profile, k) => Has(profile', k) /\ profile'[k] = profile[k]]_vars

\* The profile with the staged location and the confirmation flag is in
\* the session; the city of the profile is not written yet.
C28_Witness ==
    /\ pc = "idle"
    /\ session.exists
    /\ Has(session.profile, "_confirm_loc")
    /\ Has(session.profile, "_staged_loc")
    /\ session.profile["_staged_loc"].tz = "Asia/Karachi"
    /\ TextOf(session.profile, "city") = <<>>

\* C29: the time of day from which next_prayer counts the time left is
\* the time of day at the place whose timings it fetched, also when that
\* place is the override city of the turn and not the stored city.
C29_ClockIsOfEffectiveLocation ==
    ran = <<"next_prayer">> /\ pc = "done" =>
        LET left == reply.hours * 60 + reply.minutes
            clock == (reply.at + 2 * MinutesPerDay - left) % MinutesPerDay
        IN  clock = call.now

\* C30: a turn in which ensure_profile took an onboarding transition
\* yields the same profile whatever the LLM would answer: when such a turn
\* is at the classifier, any two answers of the LLM give the same profile,
\* and either both or none of them ends the turn with an exception, which
\* would leave the profile of the turn unstored.
C30_OnboardingIgnoresLlm ==
    pc = "classify" /\ branch # "complete" =>
        \A a \in LlmOutcomes, b \in LlmOutcomes :
            LET x == classify(profile, question, a)
                y == classify(profile, question, b)
            IN  /\ x.raises = y.raises
                /\ x.profile = y.profile

\* C31: in a turn of a user with a complete profile whose question holds a
\* date keyword, in English in any case or in Arabic, among other words or
\* alone, classify sets the intent islamic_date, goes to that handler and
\* does not ask the LLM.
C31_DateKeywordBypassesLlm ==
    [][/\ pc = "classify"
       /\ IsComplete(profile)
       /\ \/ question = <<"T", "o", "d", "a", "y", "?">>
          \/ question = <<"F", "a", "j", "r", " ", "U+0627", "U+0644", "U+064A", "U+0648", "U+0645">>
          \/ HasDateKeyword(question)
       => /\ intent' = L_islamic_date
          /\ pc' = "islamic_date"
          /\ llm_answer' = NotAsked
          /\ profile' = profile]_vars

\* A question that names a prayer and holds the Arabic word for today has
\* been routed to islamic_date, and the LLM was not asked.
C31_Witness ==
    /\ pc = "islamic_date"
    /\ ran = <<>>
    /\ question = <<"F", "a", "j", "r", " ", "U+0627", "U+0644", "U+064A", "U+0648", "U+0645">>
    /\ intent = L_islamic_date
    /\ ~llm_answer.asked

\* C32: calendar_create_event, calendar_view_events, calendar_find_events
\* and calendar_delete_event return with a reply; for a user who is known
\* and has no calendar connected, which is every known user as long as no
\* URL can be stored, the reply is the one that tells to connect first and
\* is not the outcome of a tool call.
C32_NotConnectedIsInstructiveReply ==
    [][LET waits == {"calendar_create_event", "calendar_view_events",
                     "calendar_find_events", "calendar_delete_event"}
           told == {"not_connected", "no_user_id"}
       IN  pc \in waits => (pc' = "done" /\ reply'.kind \in told)]_vars

\* C33: the place a handler fetches and names is the override city and
\* the override country where the turn has them and the stored city and
\* country where it has not; with an override city and no override
\* country the place is the override city alone, fetched by address and
\* named without a country, and address_mode is true in that case only.
C33_OverrideTakesPrecedence ==
    /\ pc = "done"
    /\ ran # <<>>
    /\ ran[1] \in {"islamic_date", "prayer_times", "next_prayer"}
    => LET entered == call.entered
           o_city == DictGet(entered, "_override_city")
           o_country == DictGet(entered, "_override_country")
           alone == Truthy(o_city) /\ ~Truthy(o_country)
       IN  /\ get_effective_location(entered).address_mode <=> alone
           /\ alone => /\ get_effective_location(entered).city = o_city
                       /\ get_effective_location(entered).country = JNull
                       /\ reply.place = [city |-> o_city, country |-> JNull]
           /\ ~alone => /\ reply.place.city =
                              IF Truthy(o_city) THEN o_city
                              ELSE JStr(TextOf(entered, "city"))
                        /\ reply.place.country =
                              IF Truthy(o_country) THEN o_country
                              ELSE JStr(TextOf(entered, "country"))
                        /\ reply.place = [city |-> get_effective_location(entered).city,
                                          country |-> get_effective_location(entered).country]

\* The LLM gave the city Doha for a question that names no country: the
\* timings are for Doha alone, and the reply names no country, while the
\* stored country is Pakistan.
C33_Witness ==
    /\ pc = "done"
    /\ ran = <<"prayer_times">>
    /\ Truthy(DictGet(call.entered, "_override_city"))
    /\ ~Has(call.entered, "_override_country")
    /\ TextOf(call.entered, "country") = <<"P", "a", "k", "i", "s", "t", "a", "n">>
    /\ reply.place.country = JNull

\* C34: when two turns of a user that both read the profile before either
\* wrote have both stored theirs, get_profile gives the profile that one
\* of the two turns returned.
C34_LastWriterWins ==
    delivery["first"].at = "stored" /\ delivery["second"].at = "stored" =>
        get_profile(users, session) \in {delivery["first"].profile,
                                         delivery["second"].profile}

\* C35: the staged location of the profile is always the one of the last
\* line that was staged: a staging replaces it with the city and country
\* of the line and the timezone of the API, a rejection removes it, and
\* nothing else changes it, in a turn or between turns; and the affirmative
\* reply commits the city, the country and the timezone of exactly that
\* staged location and removes it.
C35_CommitsLastStagedLocation ==
    [][LET none == [city |-> <<>>, country |-> <<>>, tz |-> ""]
           S(p) == IF Has(p, "_staged_loc") THEN p["_staged_loc"] ELSE none
           kept == IF session.exists THEN S(session.profile) ELSE none
       IN  /\ pc = "idle" /\ pc' = "ensure_profile" => S(profile') = kept
           /\ pc = "ensure_profile" =>
                  CASE branch' = "loc_staged" ->
                          /\ S(profile') = [city |-> parse_city_country(question).city,
                                            country |-> parse_city_country(question).country,
                                            tz |-> call'.api.timezone]
                          /\ S(profile') # none
                    [] branch' = "confirm_no" -> S(profile') = none
                    [] branch' = "confirm_yes" ->
                          /\ S(profile) # none
                          /\ S(profile') = none
                          /\ TextOf(profile', "city") = S(profile).city
                          /\ TextOf(profile', "country") = S(profile).country
                          /\ Has(profile', "tz")
                          /\ profile'["tz"] = S(profile).tz
                    [] OTHER -> S(profile') = S(profile)
           /\ pc = "noop" => S(profile') = S(profile)
           /\ pc = "done" /\ pc' = "idle" =>
                  /\ session'.exists
                  /\ S(session'.profile) = S(profile)]_vars

\* The user affirmed a staged New York in the zone Asia/Qatar: the profile
\* holds that city and that zone, and no staged location.
C35_Witness ==
    /\ branch = "confirm_yes"
    /\ pc = "classify"
    /\ TextOf(profile, "city") = <<"N", "e", "w", " ", "Y", "o", "r", "k">>
    /\ TextOf(profile, "country") = <<"P", "a", "k", "i", "s", "t", "a", "n">>
    /\ Has(profile, "tz")
    /\ profile["tz"] = "Asia/Qatar"
    /\ ~Has(profile, "_staged_loc")

\* C36: from every profile that get_profile can give between two turns,
\* the user who answers what is asked with a name, an email address, a
\* location that the API validates and a yes has a complete profile with
\* the setup-done flag after at most five turns, and after exactly five
\* from the empty profile; and the turn in which the user affirms the
\* staged location stores that profile, so that the user is in COMPLETE
\* when the turn is over.
C36_ValidAnswersReachComplete ==
    /\ [](pc = "idle" =>
            LET good == [raises |-> FALSE, timings |-> PrayerKeys,
                         timezone |-> "Asia/Karachi", dated |-> TRUE]
                Answer(p) ==
                    IF Has(p, "_confirm_loc") THEN <<"O", "K">>
                    ELSE IF ~Has(p, "_await") THEN <<"H", "i">>
                    ELSE IF p["_await"] = "name" THEN <<"A", "l", "i">>
                    ELSE IF p["_await"] = "email" THEN <<"a", "@", "b", ".", "c", "o", "m">>
                    ELSE <<"L", "a", "h", "o", "r", "e", " ", "-", " ",
                           "P", "a", "k", "i", "s", "t", "a", "n">>
                T(p) ==
                    LET out == ensure_profile(_auto_set_lang(p, Answer(p)),
                                              Answer(p), WaId, good)
                    IN  IF route_after_profile(out.profile) = "noop"
                        THEN noop(out.profile)
                        ELSE out.profile
                p0 == get_profile(users, session)
            IN  /\ IsComplete(T(T(T(T(T(p0))))))
                /\ p0 = EmptyDict => ~IsComplete(T(T(T(T(p0))))))
    /\ [][branch = "confirm_yes" /\ pc' = "idle" =>
              IsComplete(get_profile(users', session'))]_vars

\* C37: run_reminder_tick sends a reminder at most once for each time it
\* was put in the queue, failed sends included, and never more than the
\* one second of the buffer before its due time; the members it read leave
\* the queue before the first of them is sent, a send changes nothing in
\* the queue, and a member that is not yet due stays in the queue.
C37_RemindersOnceAndNotEarly ==
    /\ [](/\ \A payload \in ReminderPayloads :
               Cardinality({i \in 1..Len(outbox) : outbox[i].of = payload})
                   <= Cardinality({i \in 1..Len(enqueue_calls) : enqueue_calls[i] = payload})
          /\ \A i \in 1..Len(outbox) : outbox[i].at + 1 >= outbox[i].of.due_utc)
    /\ [][/\ \A m \in zset : m.score > epoch + 1 => m \in zset'
          /\ outbox' # outbox => job.at = "send" /\ zset' = zset
          /\ job.at = "zrem" /\ job'.at = "send"
                => \A i \in 1..Len(job.items) :
                       \A m \in zset' : m.member # job.items[i]]_vars

\* A reminder was sent, the send of another one failed, and a third one,
\* not yet due, is still in the queue after the tick.
C37_Witness ==
    /\ job.at = "idle"
    /\ \E i, j \in 1..Len(outbox) :
         outbox[i].outcome = "sent" /\ outbox[j].outcome = "raises"
    /\ \E m \in zset : m.score > epoch + 1

C40_EveryMessageIsReached ==
    request.at = "answered" =>
        /\ request.status = "ok"
        /\ \A i \in 1..Len(request.messages) : i \in request.reached

====
